---- MODULE Spec2Model ----
(***************************************************************************)
(* Honeypot fleet: the alerting engine (services/alerts), the Telnet, SSH, *)
(* FTP and HTTP decoys (honeypots/...).  Each component has its own        *)
(* variables and its own specification; a component's specification       *)
(* leaves the other components' variables unchanged.                       *)
(***************************************************************************)
EXTENDS Integers, Sequences, FiniteSets, TLC

None == "None"

(***************************************************************************)
(* State                                                                   *)
(***************************************************************************)
VARIABLES
    \* alerting engine
    now,            \* datetime.now(), in ticks
    sent_alerts,    \* self.sent_alerts: dedup key -> instant recorded
    sent_log,       \* every call of send_alert made so far (a bag)
    last_check,     \* the check run that has just ended
    \* Telnet decoy
    tn,             \* per connection: handler position, socket, locals
    tn_steps,       \* per connection: the steps its handler thread has taken
    tn_events,      \* the events handed to log_event, in order
    tn_stats,       \* self.stats
    \* SSH decoy
    ssh,            \* per connection: handler thread, transport thread, socket
    ssh_events,
    ssh_stats,
    \* FTP decoy
    ftp_events,
    ftp_stats,
    \* HTTP decoy
    http_events,
    http_stats,
    h_req,          \* the request_data under test
    h_first,        \* what the first analyze_request call on h_req returned
    h_last,         \* the last call of analyze_request: its result and frame
    \* every authentication operation completed so far, over all decoys
    auth_calls,
    \* simulate_command_response on its own
    sh_cmd,         \* the command under test
    sh_reply,       \* what the call returned, None before the call
    \* send_alert: the channels
    ch_config,      \* which channels are configured (environment, read once)
    ch_attempts,    \* every delivery attempt made so far, in order
    \* AlertService.run: the scheduled loop
    sched,          \* the loop's position, the jobs and their next_run
    \* handle_login_attempt on several connection threads
    lt,             \* per thread: position in handle_login_attempt, arguments, value read
    \* log_event: the log file and the collector
    sink,           \* the lines written to the log file and the submissions made
    \* the listener of a decoy: its accept loop and its handlers
    lsn             \* the decoy, the loop's position, the sockets accepted, the handlers

alertVars == <<now, sent_alerts, sent_log, last_check>>
telnetVars == <<tn, tn_steps, tn_events, tn_stats>>
sshVars == <<ssh, ssh_events, ssh_stats>>
ftpVars == <<ftp_events, ftp_stats>>
httpVars == <<http_events, http_stats, h_req, h_first, h_last>>
authVars == <<auth_calls>>
shellVars == <<sh_cmd, sh_reply>>
notifyVars == <<ch_config, ch_attempts>>
schedVars == <<sched>>
raceVars == <<lt>>
sinkVars == <<sink>>
listenVars == <<lsn>>

notAlert == <<telnetVars, sshVars, ftpVars, httpVars, authVars, shellVars, notifyVars, schedVars, raceVars, sinkVars, listenVars>>
notTelnet == <<alertVars, sshVars, ftpVars, httpVars, authVars, shellVars, notifyVars, schedVars, raceVars, sinkVars, listenVars>>
notSSH == <<alertVars, telnetVars, ftpVars, httpVars, shellVars, notifyVars, schedVars, raceVars, sinkVars, listenVars>>
notFTP == <<alertVars, telnetVars, sshVars, httpVars, shellVars, notifyVars, schedVars, raceVars, sinkVars, listenVars>>
notHTTP == <<alertVars, telnetVars, sshVars, ftpVars, shellVars, notifyVars, schedVars, raceVars, sinkVars, listenVars>>
notShell == <<alertVars, telnetVars, sshVars, ftpVars, httpVars, authVars, notifyVars, schedVars, raceVars, sinkVars, listenVars>>
\* everything outside the alerting engine
notEngine == <<telnetVars, sshVars, ftpVars, httpVars, authVars, shellVars, schedVars, raceVars, sinkVars, listenVars>>
\* everything outside the checks and the loop that schedules them
notService == <<telnetVars, sshVars, ftpVars, httpVars, authVars, shellVars, notifyVars, raceVars, sinkVars, listenVars>>
\* everything outside the Telnet decoy and the threads of its login handler
notRace == <<alertVars, sshVars, ftpVars, httpVars, authVars, shellVars, notifyVars, schedVars, sinkVars, listenVars>>
\* everything outside the Telnet decoy and the destinations of its events
notTelnetSink == <<alertVars, sshVars, ftpVars, httpVars, authVars, shellVars, notifyVars, schedVars, raceVars, listenVars>>
notListen == <<alertVars, telnetVars, sshVars, ftpVars, httpVars, authVars, shellVars, notifyVars, schedVars, raceVars, sinkVars>>

vars == <<alertVars, telnetVars, sshVars, ftpVars, httpVars, authVars, shellVars, notifyVars, schedVars, raceVars, sinkVars, listenVars>>

(***************************************************************************)
(* Generic helpers                                                         *)
(***************************************************************************)
Put(f, k, v) == [x \in (DOMAIN f) \cup {k} |-> IF x = k THEN v ELSE f[x]]

Get(f, k, default) == IF k \in DOMAIN f THEN f[k] ELSE default

Restrict(f, S) == [x \in S |-> f[x]]

EmptyMap == [x \in {} |-> 0]

RECURSIVE BagSize(_)
\* number of records in a history kept as a bag (record -> how many times)
BagSize(b) ==
    IF DOMAIN b = {} THEN 0
    ELSE LET e == CHOOSE x \in DOMAIN b : TRUE
         IN  b[e] + BagSize(Restrict(b, (DOMAIN b) \ {e}))

(***************************************************************************)
(* Python str operations used by the decoys, on TLA+ strings               *)
(***************************************************************************)
UpperLetters == "ABCDEFGHIJKLMNOPQRSTUVWXYZ"

LowerLetters == "abcdefghijklmnopqrstuvwxyz"

CharAt(s, i) == SubSeq(s, i, i)

\* upper-case letter -> lower-case letter
LowerMap ==
    [c \in {CharAt(UpperLetters, i) : i \in 1..Len(UpperLetters)} |->
        CharAt(LowerLetters, CHOOSE i \in 1..Len(UpperLetters) : CharAt(UpperLetters, i) = c)]

\* str.lower() of one character
LowerChar(c) == IF c \in DOMAIN LowerMap THEN LowerMap[c] ELSE c

RECURSIVE Lower(_)
\* str.lower()
Lower(s) == IF s = "" THEN "" ELSE LowerChar(CharAt(s, 1)) \o Lower(SubSeq(s, 2, Len(s)))

\* the characters of a string, one by one
Chars(s) == [i \in 1..Len(s) |-> CharAt(s, i)]

\* pattern in text, where text and pattern are given by their characters
Contains(text, pattern) ==
    \E i \in 1..(Len(text) - Len(pattern) + 1) :
        \A k \in 1..Len(pattern) : text[i + k - 1] = pattern[k]

\* s.startswith(prefix)
StartsWith(s, prefix) == Len(s) >= Len(prefix) /\ SubSeq(s, 1, Len(prefix)) = prefix

\* the characters str.strip() and str.split() treat as whitespace
IsSpace(c) == c \in {" ", "\t", "\n", "\r", "\f"}

RECURSIVE LStrip(_)
LStrip(s) == IF s # "" /\ IsSpace(CharAt(s, 1)) THEN LStrip(SubSeq(s, 2, Len(s))) ELSE s

RECURSIVE RStrip(_)
RStrip(s) ==
    IF s # "" /\ IsSpace(CharAt(s, Len(s))) THEN RStrip(SubSeq(s, 1, Len(s) - 1)) ELSE s

\* str.strip()
Strip(s) == RStrip(LStrip(s))

\* len(s.split()): the number of whitespace-separated words
WordCount(s) ==
    Cardinality({i \in 1..Len(s) :
        /\ ~IsSpace(CharAt(s, i))
        /\ (i = 1 \/ IsSpace(CharAt(s, i - 1)))})

\* faulty variant: None counts as a value
TruthyNone(v) == v # ""

\* Python truthiness of a value that is None or a string
Truthy(v) == v # None /\ v # ""

(***************************************************************************)
(* ALERTING ENGINE  (src/services/alerts/alert_service.py)                 *)
(***************************************************************************)

\* Model granularity of the wall clock: ticks per hour bucket.
TicksPerHour == 2
\* timedelta(hours=24) of cleanup_old_alerts
RetentionHours == 24
\* the clock is explored for the ticks 0..MaxOffset after the start and after
\* one retention period
MaxOffset == 3
\* at most MaxSent calls of send_alert in a behaviour
MaxSent == 2

TicksPerDay == 24 * TicksPerHour

\* self.thresholds defaults
ThresholdHighVolume == 100
ThresholdUniqueIps == 50
ThresholdBruteForce == 20
ThresholdIotBotnet == 10

AlertIPs == {"10.0.0.1", "10.0.0.2"}

\* the outcome of es.search: the aggregate value, or an exception
QueryError == [ok |-> FALSE, value |-> 0]

QueryOk(v) == [ok |-> TRUE, value |-> v]

\* datetime.now().strftime('%Y%m%d%H'): the hour bucket of an instant
HourBucket(t) == t \div TicksPerHour

\* faulty variant: the key carries no source IP
AlertKeyNoIp(name, dim, t) == <<name, "", HourBucket(t)>>

\* faulty variant: the key carries no hour bucket
AlertKeyNoHour(name, dim, t) == <<name, dim, 0>>

\* f"high_volume_{hour}", f"unique_ips_{hour}", f"brute_force_{ip}_{hour}",
\* f"iot_botnet_{hour}"
AlertKey(name, dim, t) == <<name, dim, HourBucket(t)>>

\* the clock values the model explores
ClockOK(t) == /\ t % TicksPerDay <= MaxOffset
              /\ t <= RetentionHours * TicksPerHour + MaxOffset

\* send_alert(subject, message, severity, metadata): one dispatch, recorded
\* with the check that built it and the hour of the call
send_alert(log, check, dim, severity, t) ==
    LET e == [check |-> check, dim |-> dim, severity |-> severity, hour |-> HourBucket(t)]
    IN  Put(log, e, Get(log, e, 0) + 1)

\* The guarded dispatch shared by the four checks:
\*   alert_key = f"..._{datetime.now()...}"
\*   if alert_key not in self.sent_alerts:
\*       self.send_alert(...); self.sent_alerts[alert_key] = datetime.now()
\* st = [now, sent_alerts, sent_log]; d is the time the dispatch takes.
Dispatch(st, check, dim, severity, d) ==
    LET key == AlertKey(check, dim, st.now) IN
    IF key \in DOMAIN st.sent_alerts
    THEN st
    ELSE [now |-> st.now + d,
          sent_alerts |-> Put(st.sent_alerts, key, st.now + d),
          sent_log |-> send_alert(st.sent_log, check, dim, severity, st.now)]

AlertState == [now |-> now, sent_alerts |-> sent_alerts, sent_log |-> sent_log]

\* the run that has just ended: the check, the dimensions whose aggregate it
\* saw above the threshold, the aggregates it read (dimension, value), and the
\* instant it started
Observed(check, dims, seen, t) == [check |-> check, dims |-> dims, seen |-> seen, at |-> t]

NoRun == Observed(None, {}, {}, 0)

\* the aggregate a scalar check read: none if es.search raised
ScalarSeen(agg) == IF agg.ok THEN {<<"", agg.value>>} ELSE {}

SetAlertState(st) ==
    /\ ClockOK(st.now)
    /\ BagSize(st.sent_log) <= MaxSent
    /\ now' = st.now
    /\ sent_alerts' = st.sent_alerts
    /\ sent_log' = st.sent_log

Aggregates(threshold) == {QueryError, QueryOk(threshold), QueryOk(threshold + 1)}

SendDelays == {0, 1}

\* faulty variant: an aggregate equal to the threshold counts as a breach
ScalarCheckAtLeast(check, threshold, severity, agg) ==
    IF agg.ok /\ agg.value >= threshold
    THEN /\ \E d \in SendDelays :
                SetAlertState(Dispatch(AlertState, check, "", severity, d))
         /\ last_check' = Observed(check, {""}, ScalarSeen(agg), now)
    ELSE /\ UNCHANGED <<now, sent_alerts, sent_log>>
         /\ last_check' = Observed(check, {}, ScalarSeen(agg), now)

\* One scalar check: the outcome of the query is the input.  An exception of
\* es.search is caught by the check's except clause.
ScalarCheck(check, threshold, severity, agg) ==
    IF agg.ok /\ agg.value > threshold
    THEN /\ \E d \in SendDelays :
                SetAlertState(Dispatch(AlertState, check, "", severity, d))
         /\ last_check' = Observed(check, {""}, ScalarSeen(agg), now)
    ELSE /\ UNCHANGED <<now, sent_alerts, sent_log>>
         /\ last_check' = Observed(check, {}, ScalarSeen(agg), now)

check_high_volume_attacks ==
    /\ UNCHANGED notAlert
    /\ \E agg \in Aggregates(ThresholdHighVolume) :
        ScalarCheck("high_volume", ThresholdHighVolume, "high", agg)

\* faulty variant: the unique-IP alert is sent with the severity of the volume alert
check_unique_ips_high ==
    /\ UNCHANGED notAlert
    /\ \E agg \in Aggregates(ThresholdUniqueIps) :
        ScalarCheck("unique_ips", ThresholdUniqueIps, "high", agg)

check_unique_ips ==
    /\ UNCHANGED notAlert
    /\ \E agg \in Aggregates(ThresholdUniqueIps) :
        ScalarCheck("unique_ips", ThresholdUniqueIps, "medium", agg)

check_iot_botnet_activity ==
    /\ UNCHANGED notAlert
    /\ \E agg \in Aggregates(ThresholdIotBotnet) :
        ScalarCheck("iot_botnet", ThresholdIotBotnet, "critical", agg)

RECURSIVE BruteForceLoop(_, _, _, _)
\* for bucket in response['aggregations']['by_ip']['buckets']: ...
BruteForceLoop(st, buckets, i, d) ==
    IF i > Len(buckets) THEN st
    ELSE BruteForceLoop(
            IF buckets[i].doc_count > ThresholdBruteForce
            THEN Dispatch(st, "brute_force", buckets[i].key, "high", d)
            ELSE st,
            buckets, i + 1, d)

\* the by_ip terms aggregation: at most one bucket per IP, largest count first
BucketLists ==
    {<<>>} \cup
    {<<[key |-> ip, doc_count |-> n]>> :
        ip \in AlertIPs, n \in {ThresholdBruteForce, ThresholdBruteForce + 1}} \cup
    {<<[key |-> "10.0.0.1", doc_count |-> ThresholdBruteForce + 1],
       [key |-> "10.0.0.2", doc_count |-> n2]>> :
        n2 \in {ThresholdBruteForce, ThresholdBruteForce + 1}}

Breached(buckets) ==
    {buckets[i].key : i \in {j \in 1..Len(buckets) : buckets[j].doc_count > ThresholdBruteForce}}

\* the aggregates the loop read: ip = bucket['key'], bucket['doc_count']
BucketsSeen(buckets) == {<<buckets[i].key, buckets[i].doc_count>> : i \in 1..Len(buckets)}

\* the outcome of the by_ip query: the bucket list, or an exception
BruteOutcomes ==
    {[ok |-> FALSE, value |-> <<>>]} \cup {[ok |-> TRUE, value |-> b] : b \in BucketLists}

\* the body of the brute-force check for one outcome of its query
check_brute_force_attacks_body(q) ==
    IF q.ok
    THEN /\ \E d \in (IF Breached(q.value) = {} THEN {0} ELSE SendDelays) :
                SetAlertState(BruteForceLoop(AlertState, q.value, 1, d))
         /\ last_check' = Observed("brute_force", Breached(q.value),
                                   BucketsSeen(q.value), now)
    ELSE /\ UNCHANGED <<now, sent_alerts, sent_log>>
         /\ last_check' = Observed("brute_force", {}, {}, now)

check_brute_force_attacks ==
    /\ UNCHANGED notAlert
    /\ \E q \in BruteOutcomes : check_brute_force_attacks_body(q)

\* faulty variant: everything older than now is evicted
CutoffNow(t) == t

\* cutoff_time = datetime.now() - timedelta(hours=24)
CutoffTime(t) == t - RetentionHours * TicksPerHour

\* the body of cleanup_old_alerts
cleanup_old_alerts_body ==
    /\ sent_alerts' = Restrict(sent_alerts,
            {k \in DOMAIN sent_alerts : ~(sent_alerts[k] < CutoffTime(now))})
    /\ last_check' = NoRun
    /\ UNCHANGED <<now, sent_log>>

cleanup_old_alerts ==
    /\ cleanup_old_alerts_body
    /\ UNCHANGED notAlert

\* the wall clock advances (never backwards) between two runs
Tick ==
    /\ UNCHANGED notAlert
    /\ \E d \in {1, TicksPerHour, TicksPerDay} :
        /\ ClockOK(now + d)
        /\ now' = now + d
        /\ last_check' = NoRun
        /\ UNCHANGED <<sent_alerts, sent_log>>

InitAlert ==
    /\ now = 0
    /\ sent_alerts = EmptyMap
    /\ sent_log = EmptyMap
    /\ last_check = NoRun

NextAlert ==
    \/ check_high_volume_attacks
    \/ check_unique_ips
    \/ check_brute_force_attacks
    \/ check_iot_botnet_activity
    \/ cleanup_old_alerts
    \/ Tick

\* the outcome of one delivery attempt of each channel: send_email_alert and
\* send_slack_alert catch every exception and log it
ChannelOutcomes == [email : {"ok", "failed"}, slack : {"ok", "failed"}]

Attempt(key, channel, result) == [alert |-> key, channel |-> channel, result |-> result]

\* faulty variant: a failed email delivery ends send_alert
send_alert_channels_stop(config, key, out) ==
    (IF config.email THEN <<Attempt(key, "email", out.email)>> ELSE <<>>) \o
    (IF config.slack /\ ~(config.email /\ out.email = "failed")
     THEN <<Attempt(key, "slack", out.slack)>> ELSE <<>>)

\* the body of send_alert: the email channel if it is configured, then the
\* Slack channel if it is configured
send_alert_channels(config, key, out) ==
    (IF config.email THEN <<Attempt(key, "email", out.email)>> ELSE <<>>) \o
    (IF config.slack THEN <<Attempt(key, "slack", out.slack)>> ELSE <<>>)

\* the scalar checks: name, threshold, severity
ScalarTable ==
    { <<"high_volume", ThresholdHighVolume, "high">>,
      <<"unique_ips", ThresholdUniqueIps, "medium">>,
      <<"iot_botnet", ThresholdIotBotnet, "critical">> }

\* a scalar check that reads an aggregate above its threshold, with the
\* delivery attempts its send_alert call makes
AlertWithChannels(row, out) ==
    /\ UNCHANGED notEngine
    /\ ch_config' = ch_config
    /\ ch_attempts' =
          IF AlertKey(row[1], "", now) \in DOMAIN sent_alerts
          THEN ch_attempts
          ELSE ch_attempts \o send_alert_channels(ch_config, AlertKey(row[1], "", now), out)
    /\ ScalarCheck(row[1], row[2], row[3], QueryOk(row[2] + 1))

\* SMTP_USERNAME, SMTP_PASSWORD, ALERT_EMAIL and SLACK_WEBHOOK_URL all set
InitNotify ==
    /\ ch_config = [email |-> TRUE, slack |-> TRUE]
    /\ ch_attempts = <<>>

\* every configuration of the two channels
InitNotifyProbe ==
    /\ ch_config \in [email : BOOLEAN, slack : BOOLEAN]
    /\ ch_attempts = <<>>

\* the checks whose alerts are followed through the channels
NotifyChecks == {row \in ScalarTable : row[1] \in {"high_volume", "unique_ips"}}

NextNotify ==
    \/ \E row \in NotifyChecks, out \in ChannelOutcomes : AlertWithChannels(row, out)
    \/ Tick

(***************************************************************************)
(* AlertService.run: the loop that runs the check cycles and the cleanup.  *)
(* Time is counted in minutes since run() was called: the wall clock's     *)
(* ticks and the minutes slept since the last tick.                        *)
(***************************************************************************)
\* schedule.every(5).minutes and schedule.every().hour, in minutes
Period == [checks |-> 5, cleanup |-> 60]

MinutesPerTick == 60 \div TicksPerHour

\* at most MaxSleeps calls of time.sleep(60) in a behaviour
MaxSleeps == 6

\* datetime.now() as the schedule library reads it
SchedTime == now * MinutesPerTick + sched.sub

\* run_checks calls the four checks in this order
CheckOrder == <<"high_volume", "unique_ips", "brute_force", "iot_botnet">>

\* faulty variant: an exception of the query leaves the check and ends the cycle
AfterCheckAbort(s, ok) ==
    [s EXCEPT !.pos = IF ok THEN @ + 1 ELSE Len(CheckOrder),
              !.ran = Append(@, [check |-> CheckOrder[s.pos + 1], ok |-> ok])]

\* a check returns to run_checks, normally also when its query raised (the
\* check's own except clause), and run_checks calls the next one
AfterCheck(s, ok) ==
    [s EXCEPT !.pos = @ + 1,
              !.ran = Append(@, [check |-> CheckOrder[s.pos + 1], ok |-> ok])]

\* the checks of a cycle whose query failed
FailedIn(ran) == {ran[i].check : i \in {j \in 1..Len(ran) : ~ran[j].ok}}

\* run_pending: the jobs that are due, sorted by next_run (the sort is stable:
\* the check job was registered first)
Runnable(next_run, t) ==
    LET checks == next_run.checks <= t
        cleanup == next_run.cleanup <= t
    IN  IF checks /\ cleanup
        THEN IF next_run.cleanup < next_run.checks
             THEN <<"cleanup", "checks">> ELSE <<"checks", "cleanup">>
        ELSE IF checks THEN <<"checks">>
        ELSE IF cleanup THEN <<"cleanup">>
        ELSE <<>>

\* faulty variant: a due job is started whatever the loop is doing
CanStartTimer(job) ==
    /\ sched.pc = "pending"
    /\ sched.queue # <<>>
    /\ Head(sched.queue) = job
    /\ job \notin sched.running

\* run_pending calls the jobs one after the other in the thread of the loop
CanStart(job) ==
    /\ sched.pc = "pending"
    /\ sched.queue # <<>>
    /\ Head(sched.queue) = job
    /\ sched.running = {}

\* a check cycle begins: the direct call of run() or the job of the schedule
BeginCycle(s, t) ==
    [s EXCEPT !.running = @ \cup {"checks"}, !.pos = 0, !.ran = <<>>,
              !.retry = FailedIn(s.ran), !.since = t]

\* self.run_checks() before the loop
SchedInitialRun ==
    /\ sched.pc = "initial"
    /\ sched' = [BeginCycle(sched, SchedTime) EXCEPT !.pc = "initial_run"]
    /\ UNCHANGED alertVars
    /\ UNCHANGED notService

\* schedule.run_pending() collects the due jobs
SchedRunPending ==
    /\ sched.pc = "loop"
    /\ sched' = [sched EXCEPT !.pc = "pending",
                              !.queue = Runnable(sched.next_run, SchedTime)]
    /\ UNCHANGED alertVars
    /\ UNCHANGED notService

\* run_pending starts the job of the check cycle
SchedStartChecks ==
    /\ CanStart("checks")
    /\ sched' = [BeginCycle(sched, SchedTime) EXCEPT !.queue = Tail(@)]
    /\ UNCHANGED alertVars
    /\ UNCHANGED notService

\* run_pending starts the cleanup job
SchedStartCleanup ==
    /\ CanStart("cleanup")
    /\ sched' = [sched EXCEPT !.queue = Tail(@), !.running = @ \cup {"cleanup"},
                              !.since = SchedTime]
    /\ UNCHANGED alertVars
    /\ UNCHANGED notService

\* the next check of the cycle is one of the three scalar checks
CycleScalarCheck ==
    /\ "checks" \in sched.running
    /\ sched.pos < Len(CheckOrder)
    /\ \E row \in ScalarTable :
        /\ CheckOrder[sched.pos + 1] = row[1]
        /\ \E agg \in Aggregates(row[2]) :
            /\ ScalarCheck(row[1], row[2], row[3], agg)
            /\ sched' = AfterCheck(sched, agg.ok)
    /\ UNCHANGED notService

\* the next check of the cycle is the brute-force check
CycleBruteForceCheck ==
    /\ "checks" \in sched.running
    /\ sched.pos < Len(CheckOrder)
    /\ CheckOrder[sched.pos + 1] = "brute_force"
    /\ \E q \in BruteOutcomes :
        /\ check_brute_force_attacks_body(q)
        /\ sched' = AfterCheck(sched, q.ok)
    /\ UNCHANGED notService

\* run_checks returns; a job of the schedule is then scheduled again, one
\* period after its end
CycleEnd ==
    /\ "checks" \in sched.running
    /\ sched.pos = Len(CheckOrder)
    /\ sched' = IF sched.pc = "initial_run"
                THEN [sched EXCEPT !.running = @ \ {"checks"}, !.pc = "loop"]
                ELSE [sched EXCEPT !.running = @ \ {"checks"},
                                   !.next_run.checks = SchedTime + Period.checks]
    /\ UNCHANGED alertVars
    /\ UNCHANGED notService

\* the cleanup job runs and is scheduled again
CleanupRun ==
    /\ "cleanup" \in sched.running
    /\ cleanup_old_alerts_body
    /\ sched' = [sched EXCEPT !.running = @ \ {"cleanup"},
                              !.next_run.cleanup = SchedTime + Period.cleanup]
    /\ UNCHANGED notService

\* run_pending has returned: time.sleep(60)
SchedSleep ==
    /\ sched.pc = "pending"
    /\ sched.queue = <<>>
    /\ sched.running = {}
    /\ sched.sleeps < MaxSleeps
    /\ IF sched.sub + 1 = MinutesPerTick
       THEN /\ ClockOK(now + 1)
            /\ now' = now + 1
            /\ sched' = [sched EXCEPT !.pc = "loop", !.sub = 0, !.sleeps = @ + 1]
       ELSE /\ now' = now
            /\ sched' = [sched EXCEPT !.pc = "loop", !.sub = @ + 1, !.sleeps = @ + 1]
    /\ last_check' = NoRun
    /\ UNCHANGED <<sent_alerts, sent_log>>
    /\ UNCHANGED notService

\* run() has registered the two jobs and is about to make its first call
InitSched ==
    sched = [pc |-> "initial", queue |-> <<>>, running |-> {}, pos |-> 0,
             ran |-> <<>>, retry |-> {}, since |-> 0,
             next_run |-> Period, sub |-> 0, sleeps |-> 0]

NextSched ==
    \/ SchedInitialRun
    \/ SchedRunPending
    \/ SchedStartChecks
    \/ SchedStartCleanup
    \/ CycleScalarCheck
    \/ CycleBruteForceCheck
    \/ CycleEnd
    \/ CleanupRun
    \/ SchedSleep

(***************************************************************************)
(* Alerting engine: claims                                                 *)
(***************************************************************************)
\* the dedup key (check name, dimension, hour bucket) of a dispatch
KeyOf(e) == <<e.check, e.dim, e.hour>>

\* number of send_alert calls made so far for the dedup key k
SendsFor(k) == BagSize(Restrict(sent_log, {e \in DOMAIN sent_log : KeyOf(e) = k}))

ScalarChecks == {"high_volume", "unique_ips", "iot_botnet"}

\* C1: over any sequence of check cycles and cleanup runs with a
\* non-decreasing clock, send_alert is called at most once for each dedup key
\* (check name, dimension, hour bucket), also after the key's entry has been
\* evicted by cleanup.
C1_AtMostOncePerKey ==
    \A e \in DOMAIN sent_log : SendsFor(KeyOf(e)) = 1

\* C1 witness: a key was dispatched, its entry has been evicted by cleanup, and
\* a later cycle of the same check has observed the breach again.
C1_Witness ==
    \E e \in DOMAIN sent_log :
        /\ KeyOf(e) \notin DOMAIN sent_alerts
        /\ last_check.check = e.check
        /\ e.dim \in last_check.dims
        /\ HourBucket(last_check.at) > e.hour

\* C2: a check cycle that observes a threshold breach leaves exactly one
\* notification dispatched for the breach's hour bucket: a second cycle in the
\* same hour bucket adds none, and a cycle in the following hour bucket
\* dispatches exactly one new notification although the previous hour's key
\* is still recorded.
C2_OnePerHourBucket ==
    (last_check.check \in ScalarChecks /\ last_check.dims # {})
        => SendsFor(<<last_check.check, "", HourBucket(last_check.at)>>) = 1

\* C2 witness: one notification in an hour bucket, one in the following hour
\* bucket with the first key still recorded, and a further cycle that observed
\* the breach again in that following hour after its notification was sent.
C2_Witness ==
    \E e1, e2 \in DOMAIN sent_log :
        /\ e1.check \in ScalarChecks
        /\ e2.check = e1.check
        /\ e2.hour = e1.hour + 1
        /\ KeyOf(e1) \in DOMAIN sent_alerts
        /\ KeyOf(e2) \in DOMAIN sent_alerts
        /\ last_check.check = e2.check
        /\ last_check.dims # {}
        /\ last_check.at > sent_alerts[KeyOf(e2)]
        /\ HourBucket(last_check.at) = e2.hour

(***************************************************************************)
(* TELNET DECOY  (src/honeypots/telnet/telnet_honeypot.py)                 *)
(***************************************************************************)

\* at most MaxChunks chunks are sent by the peer of one connection
MaxChunks == 3

TelnetConns == {"c1"}

ConnIP(c) == IF c = "c1" THEN "198.51.100.1" ELSE "198.51.100.2"

\* bytes with a meaning for the line editor
CR == 13
LF == 10
BS == 8
DEL == 127
\* a byte that is not valid UTF-8 anywhere
BadByte == 255

Digits == "0123456789"

\* the character of one ASCII byte of the input alphabet
Chr(b) ==
    IF b >= 97 /\ b <= 122 THEN CharAt(LowerLetters, b - 96)
    ELSE IF b >= 65 /\ b <= 90 THEN CharAt(UpperLetters, b - 64)
    ELSE IF b >= 48 /\ b <= 57 THEN CharAt(Digits, b - 47)
    ELSE IF b = 32 THEN " "
    ELSE IF b = 9 THEN "\t"
    ELSE IF b = 45 THEN "-"
    ELSE IF b = 47 THEN "/"
    ELSE "?"

RECURSIVE Decode(_)
\* bytes.decode('utf-8', errors='ignore'): undecodable bytes are dropped
Decode(data) ==
    IF data = <<>> THEN ""
    ELSE (IF Head(data) < 128 THEN Chr(Head(data)) ELSE "") \o Decode(Tail(data))

\* what one client_socket.send call of the editor puts on the wire
EraseSeq == "<BS> <BS>"
Star == "*"
RawByte(b) == IF b < 128 THEN Chr(b) ELSE "<BadByte>"

RECURSIVE GetInputLoop(_, _, _, _, _, _)
\* the while loop of get_input: data is the buffer, rest the bytes the peer has
\* sent and the handler has not read, echo the sends made so far
GetInputLoop(data, rest, echo, consumed, peer, hide) ==
    IF rest = <<>>
    THEN IF peer = "closed"
         \* recv returns b"": break, the buffer is returned
         THEN [ret |-> Strip(Decode(data)), rest |-> rest, echo |-> echo,
               consumed |-> consumed, outcome |-> "eof"]
         \* socket.timeout after 30 s: return None
         ELSE [ret |-> None, rest |-> rest, echo |-> echo,
               consumed |-> consumed, outcome |-> "timeout"]
    ELSE LET b == Head(rest) IN
         IF b = CR \/ b = LF
         THEN [ret |-> Strip(Decode(data)), rest |-> Tail(rest), echo |-> echo,
               consumed |-> Append(consumed, b), outcome |-> "line"]
         ELSE IF b = BS \/ b = DEL
         THEN IF data # <<>>
              THEN GetInputLoop(SubSeq(data, 1, Len(data) - 1), Tail(rest),
                                IF hide THEN echo ELSE Append(echo, EraseSeq),
                                Append(consumed, b), peer, hide)
              ELSE GetInputLoop(data, Tail(rest), echo, Append(consumed, b), peer, hide)
         ELSE GetInputLoop(Append(data, b), Tail(rest),
                           Append(echo, IF hide THEN Star ELSE RawByte(b)),
                           Append(consumed, b), peer, hide)

\* faulty variant: the hide flag is not passed on to the loop
GetInputNoHide(rest, peer, hide) ==
    IF peer = "reset"
    THEN [ret |-> None, rest |-> rest, echo |-> <<>>, consumed |-> <<>>, outcome |-> "error"]
    ELSE GetInputLoop(<<>>, rest, <<>>, <<>>, peer, FALSE)

\* faulty variant: at the end of the stream the buffer is dropped, as on a timeout
GetInputEofDrops(rest, peer, hide) ==
    LET r == IF peer = "reset"
             THEN [ret |-> None, rest |-> rest, echo |-> <<>>, consumed |-> <<>>,
                   outcome |-> "error"]
             ELSE GetInputLoop(<<>>, rest, <<>>, <<>>, peer, hide)
    IN  IF r.outcome = "eof" THEN [r EXCEPT !.ret = None] ELSE r

\* faulty variant: a LF that follows the CR of a line is read with it
GetInputCrLf(rest, peer, hide) ==
    LET r == IF peer = "reset"
             THEN [ret |-> None, rest |-> rest, echo |-> <<>>, consumed |-> <<>>,
                   outcome |-> "error"]
             ELSE GetInputLoop(<<>>, rest, <<>>, <<>>, peer, hide)
    IN  IF /\ r.outcome = "line"
           /\ r.consumed[Len(r.consumed)] = CR
           /\ r.rest # <<>>
           /\ Head(r.rest) = LF
        THEN [r EXCEPT !.rest = Tail(@), !.consumed = Append(@, LF)]
        ELSE r

\* get_input(client_socket, prompt, hide): a reset connection makes recv raise,
\* which get_input turns into None
GetInput(rest, peer, hide) ==
    IF peer = "reset"
    THEN [ret |-> None, rest |-> rest, echo |-> <<>>, consumed |-> <<>>, outcome |-> "error"]
    ELSE GetInputLoop(<<>>, rest, <<>>, <<>>, peer, hide)

\* event_data.update({...}) of log_event, then the write to the sink
TelnetLogEvent(events, event_data) ==
    Append(events,
           [timestamp |-> "utcnow", service |-> "telnet",
            honeypot_type |-> "telnet_honeypot", version |-> "1.0.0"] @@ event_data)

IotCredentials ==
    { <<"admin", "admin">>, <<"root", "root">>, <<"admin", "password">>,
      <<"root", "password">>, <<"admin", "123456">>, <<"root", "123456">>,
      <<"user", "user">>, <<"guest", "guest">>, <<"support", "support">>,
      <<"admin", "">>, <<"root", "">>, <<"", "">>, <<"admin", "1234">>,
      <<"root", "toor">>, <<"admin", "pass">> }

\* faulty variant: the username and the password are looked up separately
LoginAttemptEventLoose(c, username, password) ==
    LET listed == /\ username \in {pair[1] : pair \in IotCredentials}
                  /\ password \in {pair[2] : pair \in IotCredentials}
    IN  [event_type |-> "login_attempt", by |-> c, source_ip |-> ConnIP(c),
         username |-> username, password |-> password, success |-> FALSE,
         attack_type |-> IF listed THEN "iot_botnet" ELSE "brute_force",
         threat_level |-> IF listed THEN "high" ELSE "medium"]

\* the event handle_login_attempt builds
LoginAttemptEvent(c, username, password) ==
    [event_type |-> "login_attempt", by |-> c, source_ip |-> ConnIP(c),
     username |-> username, password |-> password, success |-> FALSE,
     attack_type |-> IF <<username, password>> \in IotCredentials
                     THEN "iot_botnet" ELSE "brute_force",
     threat_level |-> IF <<username, password>> \in IotCredentials
                      THEN "high" ELSE "medium"]

Incr(m, k) == Put(m, k, Get(m, k, 0) + 1)

\* the statistics update of handle_login_attempt
LoginStats(stats, username, password) ==
    [stats EXCEPT !.login_attempts = @ + 1,
                  !.common_usernames = Incr(@, username),
                  !.common_passwords = Incr(@, password)]

\* faulty variant: the command is trimmed but not lowercased
simulate_command_response_cased(command) ==
    LET cmd == Strip(command) IN
    IF cmd \in {"ls", "dir"}
    THEN "\r\nbin  boot  dev  etc  home  lib  media  mnt  opt  proc  root  run  sbin  srv  sys  tmp  usr  var\r\n"
    ELSE IF cmd = "pwd" THEN "\r\n/home/user\r\n"
    ELSE IF cmd = "whoami" THEN "\r\nuser\r\n"
    ELSE IF cmd = "id" THEN "\r\nuid=1000(user) gid=1000(user) groups=1000(user)\r\n"
    ELSE IF StartsWith(cmd, "cat ") THEN "\r\ncat: permission denied\r\n"
    ELSE IF cmd = "ps"
    THEN "\r\n  PID TTY          TIME CMD\r\n 1234 pts/0    00:00:00 bash\r\n"
    ELSE IF cmd = "uname -a"
    THEN "\r\nLinux honeypot 5.4.0-74-generic #83-Ubuntu SMP Sat May 8 02:35:39 UTC 2021 x86_64 x86_64 x86_64 GNU/Linux\r\n"
    ELSE IF cmd \in {"exit", "quit", "logout"} THEN "\r\nlogout\r\n"
    ELSE "\r\n" \o cmd \o ": command not found\r\n"

\* simulate_command_response(command): the elif chain on command.lower().strip()
simulate_command_response(command) ==
    LET cmd == Strip(Lower(command)) IN
    IF cmd \in {"ls", "dir"}
    THEN "\r\nbin  boot  dev  etc  home  lib  media  mnt  opt  proc  root  run  sbin  srv  sys  tmp  usr  var\r\n"
    ELSE IF cmd = "pwd" THEN "\r\n/home/user\r\n"
    ELSE IF cmd = "whoami" THEN "\r\nuser\r\n"
    ELSE IF cmd = "id" THEN "\r\nuid=1000(user) gid=1000(user) groups=1000(user)\r\n"
    ELSE IF StartsWith(cmd, "cat ") THEN "\r\ncat: permission denied\r\n"
    ELSE IF cmd = "ps"
    THEN "\r\n  PID TTY          TIME CMD\r\n 1234 pts/0    00:00:00 bash\r\n"
    ELSE IF cmd = "uname -a"
    THEN "\r\nLinux honeypot 5.4.0-74-generic #83-Ubuntu SMP Sat May 8 02:35:39 UTC 2021 x86_64 x86_64 x86_64 GNU/Linux\r\n"
    ELSE IF cmd \in {"exit", "quit", "logout"} THEN "\r\nlogout\r\n"
    ELSE "\r\n" \o cmd \o ": command not found\r\n"

Banner == "Ubuntu 20.04.3 LTS\r\nlogin: "
PasswordPrompt == "Password: "
LoginIncorrect == "\r\nLogin incorrect\r\n"
ShellPrompt(username) == username \o "@honeypot:~$ "

\* What a handler did, in the order of the code: a send on the socket, an event
\* handed to log_event, a get_input call that returned, the close of the socket.
Send(text) == [op |-> "send", arg |-> text]
Emit(event_type) == [op |-> "event", arg |-> event_type]
Read(outcome) == [op |-> "read", arg |-> outcome]
Close == [op |-> "close", arg |-> ""]

\* one get_input call: its echoes, then its return
TraceRead(r) == [i \in 1..Len(r.echo) |-> Send(r.echo[i])] \o <<Read(r.outcome)>>

\* the finally clause of handle_client
TraceFinally == <<Close, Emit("disconnect")>>

\* faulty variant: the message is sent before the event is logged
LoginTraceSendFirst(c) == <<Send(LoginIncorrect), Emit("login_attempt")>>

\* handle_login_attempt(...), then send(b"\r\nLogin incorrect\r\n")
LoginTrace(c) == <<Emit("login_attempt"), Send(LoginIncorrect)>>

\* faulty variant: the reply is sent before the event is logged
ShellTurnTraceReplyFirst(username, command) ==
    <<Send(simulate_command_response(command)), Emit("command_execution"),
      Send(ShellPrompt(username))>>

\* faulty variant: the word count is tested before the prompt is sent again
ShellTurnTraceBreakEarly(username, command) ==
    <<Emit("command_execution"), Send(simulate_command_response(command))>> \o
    (IF WordCount(command) > 10 THEN <<>> ELSE <<Send(ShellPrompt(username))>>)

\* one turn of simulate_shell on a non-empty line: the event, the reply, the prompt
ShellTurnTrace(username, command) ==
    <<Emit("command_execution"), Send(simulate_command_response(command)),
      Send(ShellPrompt(username))>>

\* faulty variant: the loop goes on until a line has more than 11 words
LoopEndsLate(command) == WordCount(command) > 11

\* faulty variant: exit, quit and logout end the loop as well
LoopEndsOnExit(command) ==
    WordCount(command) > 10 \/ Strip(Lower(command)) \in {"exit", "quit", "logout"}

\* if len(command.split()) > 10: break
LoopEnds(command) == WordCount(command) > 10

\* the finally clause of handle_client: close the socket, log the disconnect
\* faulty variant: the address is kept in a field of the decoy that every
\* accepted connection overwrites
TelnetFinallyShared(events, c) ==
    LET conn == SelectSeq(events, LAMBDA e : e.event_type = "connection")
    IN  TelnetLogEvent(events,
            [event_type |-> "disconnect", by |-> c,
             source_ip |-> conn[Len(conn)].source_ip, duration |-> "unknown"])

TelnetFinally(events, c) ==
    TelnetLogEvent(events,
        [event_type |-> "disconnect", by |-> c, source_ip |-> ConnIP(c),
         duration |-> "unknown"])

ReadRecord(r, hide) ==
    [hide |-> hide, consumed |-> r.consumed, ret |-> r.ret, echo |-> r.echo,
     outcome |-> r.outcome]

\* accept, thread start and handle_client up to its first read
TelnetAcceptStep(c) ==
    /\ tn[c].pc = "idle"
    /\ tn_steps' = tn_steps
    /\ tn_stats' = [tn_stats EXCEPT !.total_connections = @ + 1,
                                    !.unique_ips = @ \cup {ConnIP(c)}]
    /\ LET ev == TelnetLogEvent(tn_events,
                    [event_type |-> "connection", by |-> c, source_ip |-> ConnIP(c),
                     destination_port |-> 23, protocol |-> "telnet"])
       IN  IF tn[c].peer = "reset"
           \* send(banner) raises: except, finally
           THEN /\ tn' = [tn EXCEPT ![c].pc = "closed",
                                    ![c].trace = <<Emit("connection")>> \o TraceFinally]
                /\ tn_events' = TelnetFinally(ev, c)
           ELSE /\ tn' = [tn EXCEPT ![c].pc = "username",
                                    ![c].out = Append(@, Banner),
                                    ![c].trace = <<Emit("connection"), Send(Banner)>>]
                /\ tn_events' = ev

TelnetAccept(c) ==
    /\ UNCHANGED notTelnet
    /\ TelnetAcceptStep(c)

\* username = get_input(...); if username: send(b"Password: ")
TelnetReadUsernameStep(c) ==
    /\ tn[c].pc = "username"
    /\ tn_steps' = [tn_steps EXCEPT ![c] = @ + 1]
    /\ LET r == GetInput(tn[c].inp, tn[c].peer, FALSE) IN
       /\ tn_stats' = tn_stats
       /\ IF Truthy(r.ret)
          THEN /\ tn' = [tn EXCEPT ![c].pc = "password",
                                   ![c].inp = r.rest,
                                   ![c].user = r.ret,
                                   ![c].reads = Append(@, ReadRecord(r, FALSE)),
                                   ![c].out = @ \o r.echo \o <<PasswordPrompt>>,
                                   ![c].trace = @ \o TraceRead(r) \o <<Send(PasswordPrompt)>>]
               /\ tn_events' = tn_events
          ELSE /\ tn' = [tn EXCEPT ![c].pc = "closed",
                                   ![c].inp = r.rest,
                                   ![c].reads = Append(@, ReadRecord(r, FALSE)),
                                   ![c].out = @ \o r.echo,
                                   ![c].trace = @ \o TraceRead(r) \o TraceFinally]
               /\ tn_events' = TelnetFinally(tn_events, c)

TelnetReadUsername(c) ==
    /\ UNCHANGED notTelnet
    /\ TelnetReadUsernameStep(c)

\* password = get_input(..., hide=True); if password: handle_login_attempt,
\* send(b"\r\nLogin incorrect\r\n"), time.sleep(2)
TelnetReadPasswordStep(c) ==
    /\ tn[c].pc = "password"
    /\ tn_steps' = [tn_steps EXCEPT ![c] = @ + 1]
    /\ LET r == GetInput(tn[c].inp, tn[c].peer, TRUE) IN
       IF Truthy(r.ret)
       THEN /\ tn' = [tn EXCEPT ![c].pc = "postauth",
                                ![c].inp = r.rest,
                                ![c].reads = Append(@, ReadRecord(r, TRUE)),
                                ![c].out = @ \o r.echo \o <<LoginIncorrect>>,
                                ![c].trace = @ \o TraceRead(r) \o LoginTrace(c)]
            /\ tn_stats' = LoginStats(tn_stats, tn[c].user, r.ret)
            /\ tn_events' = TelnetLogEvent(tn_events,
                                LoginAttemptEvent(c, tn[c].user, r.ret))
       ELSE /\ tn' = [tn EXCEPT ![c].pc = "closed",
                                ![c].inp = r.rest,
                                ![c].reads = Append(@, ReadRecord(r, TRUE)),
                                ![c].out = @ \o r.echo,
                                ![c].trace = @ \o TraceRead(r) \o TraceFinally]
            /\ tn_stats' = tn_stats
            /\ tn_events' = TelnetFinally(tn_events, c)

TelnetReadPassword(c) ==
    /\ UNCHANGED notTelnet
    /\ TelnetReadPasswordStep(c)

\* after the sleep: simulate_shell sends the first prompt
TelnetShellStartStep(c) ==
    /\ tn[c].pc = "postauth"
    /\ tn_steps' = [tn_steps EXCEPT ![c] = @ + 1]
    /\ tn_stats' = tn_stats
    /\ IF tn[c].peer = "reset"
       \* send(prompt) raises inside simulate_shell: logged, then finally
       THEN /\ tn' = [tn EXCEPT ![c].pc = "closed",
                                ![c].trace = @ \o TraceFinally]
            /\ tn_events' = TelnetFinally(tn_events, c)
       ELSE /\ tn' = [tn EXCEPT ![c].pc = "shell",
                                ![c].out = Append(@, ShellPrompt(tn[c].user)),
                                ![c].trace = Append(@, Send(ShellPrompt(tn[c].user)))]
            /\ tn_events' = tn_events

TelnetShellStart(c) ==
    /\ UNCHANGED notTelnet
    /\ TelnetShellStartStep(c)

\* one turn of the while loop of simulate_shell
TelnetShellStepStep(c) ==
    /\ tn[c].pc = "shell"
    /\ tn_steps' = [tn_steps EXCEPT ![c] = @ + 1]
    /\ LET r == GetInput(tn[c].inp, tn[c].peer, FALSE) IN
       IF Truthy(r.ret)
       THEN /\ tn' = [tn EXCEPT ![c].pc = IF LoopEnds(r.ret) THEN "closed" ELSE "shell",
                                ![c].inp = r.rest,
                                ![c].reads = Append(@, ReadRecord(r, FALSE)),
                                ![c].out = @ \o r.echo \o
                                    <<simulate_command_response(r.ret),
                                      ShellPrompt(tn[c].user)>>,
                                ![c].trace = @ \o TraceRead(r) \o
                                    ShellTurnTrace(tn[c].user, r.ret) \o
                                    (IF LoopEnds(r.ret) THEN TraceFinally ELSE <<>>)]
            /\ tn_stats' = [tn_stats EXCEPT !.commands_executed = Incr(@, r.ret)]
            /\ LET ev == TelnetLogEvent(tn_events,
                            [event_type |-> "command_execution", by |-> c,
                             source_ip |-> ConnIP(c), username |-> tn[c].user,
                             command |-> r.ret, attack_type |-> "command_injection"])
               IN  tn_events' = IF LoopEnds(r.ret) THEN TelnetFinally(ev, c) ELSE ev
       ELSE /\ tn' = [tn EXCEPT ![c].pc = "closed",
                                ![c].inp = r.rest,
                                ![c].reads = Append(@, ReadRecord(r, FALSE)),
                                ![c].out = @ \o r.echo,
                                ![c].trace = @ \o TraceRead(r) \o TraceFinally]
            /\ tn_stats' = tn_stats
            /\ tn_events' = TelnetFinally(tn_events, c)

TelnetShellStep(c) ==
    /\ UNCHANGED notTelnet
    /\ TelnetShellStepStep(c)

\* the peer sends a chunk of bytes
TelnetPeerSendStep(c, chunk) ==
    /\ tn[c].pc # "closed"
    /\ tn[c].peer = "open"
    /\ tn[c].nsent < MaxChunks
    /\ tn' = [tn EXCEPT ![c].inp = @ \o chunk, ![c].nsent = @ + 1]
    /\ UNCHANGED <<tn_steps, tn_events, tn_stats>>

TelnetPeerSend(c, chunk) ==
    /\ UNCHANGED notTelnet
    /\ TelnetPeerSendStep(c, chunk)

\* the peer closes its side: recv returns b"" once the pending bytes are read
TelnetPeerCloseStep(c) ==
    /\ tn[c].pc # "closed"
    /\ tn[c].peer = "open"
    /\ tn' = [tn EXCEPT ![c].peer = "closed"]
    /\ UNCHANGED <<tn_steps, tn_events, tn_stats>>

TelnetPeerClose(c) ==
    /\ UNCHANGED notTelnet
    /\ TelnetPeerCloseStep(c)

\* the connection is reset: every later recv and send raises
TelnetPeerResetStep(c) ==
    /\ tn[c].pc # "closed"
    /\ tn[c].peer # "reset"
    /\ tn' = [tn EXCEPT ![c].peer = "reset"]
    /\ UNCHANGED <<tn_steps, tn_events, tn_stats>>

TelnetPeerReset(c) ==
    /\ UNCHANGED notTelnet
    /\ TelnetPeerResetStep(c)

\* "a a a a a a a a a a a" CR
ElevenWords == [i \in 1..22 |-> IF i = 22 THEN CR ELSE IF i % 2 = 1 THEN 97 ELSE 32]

\* "exit" CR "Quit" CR "logout" CR
ExitLines ==
    <<101, 120, 105, 116, 13, 81, 117, 105, 116, 13, 108, 111, 103, 111, 117, 116, 13>>

\* the chunks a peer may send
TelnetChunks ==
    { <<13>>,                          \* an empty line
      <<97, 13>>,                      \* "a" CR
      <<97, 13, 10>>,                  \* "a" CR LF
      ExitLines,                       \* "exit" CR "Quit" CR "logout" CR
      <<32, 97, 32, 10>>,              \* " a " LF
      <<97, 98, 99, 8, 100, 13>>,      \* "abc" backspace "d" CR
      <<8, 97, 127, 127, 98, 10>>,     \* backspace "a" DEL DEL "b" LF
      <<255, 108, 115, 13>>,           \* an undecodable byte, "ls" CR
      <<97, 98>>,                      \* "ab", no terminator
      ElevenWords \o <<97, 13>> }      \* a line of eleven words, then "a" CR

InitTelnet ==
    /\ tn = [c \in TelnetConns |->
                [pc |-> "idle", inp |-> <<>>, peer |-> "open", out |-> <<>>,
                 user |-> None, reads |-> <<>>, nsent |-> 0, trace |-> <<>>]]
    /\ tn_steps = [c \in TelnetConns |-> 0]
    /\ tn_events = <<>>
    /\ tn_stats = [total_connections |-> 0, login_attempts |-> 0, unique_ips |-> {},
                   common_usernames |-> EmptyMap, common_passwords |-> EmptyMap,
                   commands_executed |-> EmptyMap]

NextTelnet ==
    \/ \E c \in TelnetConns : TelnetAccept(c)
    \/ \E c \in TelnetConns : TelnetReadUsername(c)
    \/ \E c \in TelnetConns : TelnetReadPassword(c)
    \/ \E c \in TelnetConns : TelnetShellStart(c)
    \/ \E c \in TelnetConns : TelnetShellStep(c)
    \/ \E c \in TelnetConns, chunk \in TelnetChunks : TelnetPeerSend(c, chunk)
    \/ \E c \in TelnetConns : TelnetPeerClose(c)
    \/ \E c \in TelnetConns : TelnetPeerReset(c)

(***************************************************************************)
(* The connection breaks while a handler is between two socket calls of    *)
(* one step: the next send raises.  handle_client catches the exception    *)
(* (or get_input, or simulate_shell, which then return) and runs its       *)
(* finally clause.                                                         *)
(***************************************************************************)
\* a socket call raised
Raise == [op |-> "raise", arg |-> ""]

\* get_input on the first n bytes pending, the echo of the last of them raises:
\* the except clause of get_input returns None
GetInputEchoFails(rest, n, hide) ==
    LET r == GetInputLoop(<<>>, SubSeq(rest, 1, n), <<>>, <<>>, "open", hide)
        before == GetInputLoop(<<>>, SubSeq(rest, 1, n - 1), <<>>, <<>>, "open", hide)
    IN  [ret |-> None, rest |-> SubSeq(rest, n + 1, Len(rest)),
         echo |-> before.echo, consumed |-> r.consumed, outcome |-> "error",
         possible |-> /\ r.outcome = "timeout" /\ Len(r.echo) = Len(before.echo) + 1]

\* faulty variant: the handler goes on after the exception and tells the peer
TelnetAbortTelling(c, r, hide) ==
    /\ tn' = [tn EXCEPT ![c].pc = "closed",
                        ![c].peer = "reset",
                        ![c].inp = r.rest,
                        ![c].reads = Append(@, ReadRecord(r, hide)),
                        ![c].out = @ \o r.echo \o <<"Connection reset by peer">>,
                        ![c].trace = @ \o TraceRead(r) \o
                            <<Send("Connection reset by peer")>> \o TraceFinally]
    /\ tn_events' = TelnetFinally(tn_events, c)

\* get_input returned None after an exception: the handler falls through to
\* the finally clause of handle_client
TelnetAbort(c, r, hide) ==
    /\ tn' = [tn EXCEPT ![c].pc = "closed",
                        ![c].peer = "reset",
                        ![c].inp = r.rest,
                        ![c].reads = Append(@, ReadRecord(r, hide)),
                        ![c].out = @ \o r.echo,
                        ![c].trace = @ \o TraceRead(r) \o TraceFinally]
    /\ tn_events' = TelnetFinally(tn_events, c)

\* an echo of get_input raises, at any of the three reads
TelnetEchoFails(c) ==
    /\ tn[c].pc \in {"username", "password", "shell"}
    /\ tn[c].peer = "open"
    /\ \E n \in 1..Len(tn[c].inp) :
        LET hide == tn[c].pc = "password"
            r == GetInputEchoFails(tn[c].inp, n, hide)
        IN  /\ r.possible
            /\ TelnetAbort(c, [x \in DOMAIN r \ {"possible"} |-> r[x]], hide)
    /\ tn_steps' = [tn_steps EXCEPT ![c] = @ + 1]
    /\ tn_stats' = tn_stats
    /\ UNCHANGED notTelnet

\* the username is read, send(b"Password: ") raises
TelnetPasswordPromptFails(c) ==
    /\ tn[c].pc = "username"
    /\ tn[c].peer # "reset"
    /\ LET r == GetInput(tn[c].inp, tn[c].peer, FALSE) IN
       /\ Truthy(r.ret)
       /\ tn' = [tn EXCEPT ![c].pc = "closed",
                           ![c].peer = "reset",
                           ![c].inp = r.rest,
                           ![c].user = r.ret,
                           ![c].reads = Append(@, ReadRecord(r, FALSE)),
                           ![c].out = @ \o r.echo,
                           ![c].trace = @ \o TraceRead(r) \o <<Raise>> \o TraceFinally]
       /\ tn_events' = TelnetFinally(tn_events, c)
    /\ tn_steps' = [tn_steps EXCEPT ![c] = @ + 1]
    /\ tn_stats' = tn_stats
    /\ UNCHANGED notTelnet

\* the password is read and the attempt logged, send(b"\r\nLogin incorrect\r\n")
\* raises
TelnetLoginIncorrectFails(c) ==
    /\ tn[c].pc = "password"
    /\ tn[c].peer # "reset"
    /\ LET r == GetInput(tn[c].inp, tn[c].peer, TRUE) IN
       /\ Truthy(r.ret)
       /\ tn' = [tn EXCEPT ![c].pc = "closed",
                           ![c].peer = "reset",
                           ![c].inp = r.rest,
                           ![c].reads = Append(@, ReadRecord(r, TRUE)),
                           ![c].out = @ \o r.echo,
                           ![c].trace = @ \o TraceRead(r) \o
                               <<Emit("login_attempt"), Raise>> \o TraceFinally]
       /\ tn_stats' = LoginStats(tn_stats, tn[c].user, r.ret)
       /\ tn_events' = TelnetFinally(
                           TelnetLogEvent(tn_events,
                               LoginAttemptEvent(c, tn[c].user, r.ret)), c)
    /\ tn_steps' = [tn_steps EXCEPT ![c] = @ + 1]
    /\ UNCHANGED notTelnet

\* a command is read and logged; send(response) raises, or the response is
\* sent and send(prompt) raises: the except clause of simulate_shell
TelnetShellSendFails(c, sent) ==
    /\ tn[c].pc = "shell"
    /\ tn[c].peer # "reset"
    /\ LET r == GetInput(tn[c].inp, tn[c].peer, FALSE) IN
       /\ Truthy(r.ret)
       /\ tn' = [tn EXCEPT ![c].pc = "closed",
                           ![c].peer = "reset",
                           ![c].inp = r.rest,
                           ![c].reads = Append(@, ReadRecord(r, FALSE)),
                           ![c].out = @ \o r.echo \o
                               SubSeq(<<simulate_command_response(r.ret)>>, 1, sent),
                           ![c].trace = @ \o TraceRead(r) \o
                               <<Emit("command_execution")>> \o
                               SubSeq(<<Send(simulate_command_response(r.ret))>>, 1, sent) \o
                               <<Raise>> \o TraceFinally]
       /\ tn_stats' = [tn_stats EXCEPT !.commands_executed = Incr(@, r.ret)]
       /\ tn_events' = TelnetFinally(
                           TelnetLogEvent(tn_events,
                               [event_type |-> "command_execution", by |-> c,
                                source_ip |-> ConnIP(c), username |-> tn[c].user,
                                command |-> r.ret, attack_type |-> "command_injection"]), c)
    /\ tn_steps' = [tn_steps EXCEPT ![c] = @ + 1]
    /\ UNCHANGED notTelnet

NextTelnetFaults ==
    \/ NextTelnet
    \/ \E c \in TelnetConns : TelnetEchoFails(c)
    \/ \E c \in TelnetConns : TelnetPasswordPromptFails(c)
    \/ \E c \in TelnetConns : TelnetLoginIncorrectFails(c)
    \/ \E c \in TelnetConns, sent \in {0, 1} : TelnetShellSendFails(c, sent)

(***************************************************************************)
(* Several connections at once: start() runs handle_client for each        *)
(* accepted socket in a thread of its own.  The peers of different         *)
(* connections type different letters.                                     *)
(***************************************************************************)
ConcurrentConns == {"c1", "c2"}

\* at most MaxConcurrentChunks chunks from each of the peers
MaxConcurrentChunks == 2

\* what the peer of a connection sends: two lines of its own letter
ConnChunks(c) ==
    IF c = "c1" THEN {<<97, 13, 97, 13>>}       \* "a" CR "a" CR
    ELSE {<<98, 13, 98, 10>>}                   \* "b" CR "b" LF

\* the lines that can be read from a connection
ConnWords(c) == IF c = "c1" THEN {"a"} ELSE {"b"}

InitTelnetConcurrent ==
    /\ tn = [c \in ConcurrentConns |->
                [pc |-> "idle", inp |-> <<>>, peer |-> "open", out |-> <<>>,
                 user |-> None, reads |-> <<>>, nsent |-> 0, trace |-> <<>>]]
    /\ tn_steps = [c \in ConcurrentConns |-> 0]
    /\ tn_events = <<>>
    /\ tn_stats = [total_connections |-> 0, login_attempts |-> 0, unique_ips |-> {},
                   common_usernames |-> EmptyMap, common_passwords |-> EmptyMap,
                   commands_executed |-> EmptyMap]

NextTelnetConcurrent ==
    \/ \E c \in ConcurrentConns : TelnetAccept(c)
    \/ \E c \in ConcurrentConns : TelnetReadUsername(c)
    \/ \E c \in ConcurrentConns : TelnetReadPassword(c)
    \/ \E c \in ConcurrentConns : TelnetShellStart(c)
    \/ \E c \in ConcurrentConns : TelnetShellStep(c)
    \/ \E c \in ConcurrentConns : \E chunk \in ConnChunks(c) :
            tn[c].nsent < MaxConcurrentChunks /\ TelnetPeerSend(c, chunk)
    \/ \E c \in ConcurrentConns : TelnetPeerClose(c)
    \/ \E c \in ConcurrentConns : TelnetPeerReset(c)

(***************************************************************************)
(* log_event: the write to the log file and the submission to the          *)
(* collector.  Both are wrapped in try/except; the call returns to the     *)
(* handler whatever their outcome.                                         *)
(***************************************************************************)
\* the write raises or not; the post answers 200, answers another status, or
\* raises (refused, timeout)
SinkOutcomes == [file : {"ok", "failed"}, post : {"ok", "rejected", "failed"}]

\* faulty variant: a submission that did not get 200 is made again
log_event_sink_retry(s, event, o) ==
    [file |-> IF o.file = "ok" THEN Append(s.file, event) ELSE s.file,
     posts |-> IF o.post = "ok"
               THEN Append(s.posts, [event |-> event, outcome |-> o.post])
               ELSE s.posts \o <<[event |-> event, outcome |-> o.post],
                                 [event |-> event, outcome |-> "ok"]>>]

\* the two try blocks of log_event for one event
log_event_sink(s, event, o) ==
    [file |-> IF o.file = "ok" THEN Append(s.file, event) ELSE s.file,
     posts |-> Append(s.posts, [event |-> event, outcome |-> o.post])]

RECURSIVE LogEventsSink(_, _, _, _)
\* the log_event calls of one step of a handler, in order
LogEventsSink(s, events, outs, i) ==
    IF i > Len(events) THEN s
    ELSE LogEventsSink(log_event_sink(s, events[i], outs[i]), events, outs, i + 1)

\* the events the step has handed to log_event go to the file and the collector
TelnetSink ==
    LET new == SubSeq(tn_events', Len(tn_events) + 1, Len(tn_events'))
    IN  \E outs \in [1..Len(new) -> SinkOutcomes] :
            sink' = LogEventsSink(sink, new, outs, 1)

\* the peer sends its three lines at once
SinkChunks == {<<97, 13, 97, 13, 108, 115, 13>>}     \* "a" CR "a" CR "ls" CR

TelnetAcceptSink(c) ==
    TelnetAcceptStep(c) /\ TelnetSink /\ UNCHANGED notTelnetSink

TelnetReadUsernameSink(c) ==
    TelnetReadUsernameStep(c) /\ TelnetSink /\ UNCHANGED notTelnetSink

TelnetReadPasswordSink(c) ==
    TelnetReadPasswordStep(c) /\ TelnetSink /\ UNCHANGED notTelnetSink

TelnetShellStartSink(c) ==
    TelnetShellStartStep(c) /\ TelnetSink /\ UNCHANGED notTelnetSink

TelnetShellStepSink(c) ==
    TelnetShellStepStep(c) /\ TelnetSink /\ UNCHANGED notTelnetSink

TelnetPeerSendSink(c, chunk) ==
    /\ tn[c].nsent = 0
    /\ TelnetPeerSendStep(c, chunk) /\ TelnetSink /\ UNCHANGED notTelnetSink

TelnetPeerCloseSink(c) ==
    TelnetPeerCloseStep(c) /\ TelnetSink /\ UNCHANGED notTelnetSink

TelnetPeerResetSink(c) ==
    TelnetPeerResetStep(c) /\ TelnetSink /\ UNCHANGED notTelnetSink

\* nothing written, nothing submitted
InitSink == sink = [file |-> <<>>, posts |-> <<>>]

NextTelnetSink ==
    \/ \E c \in TelnetConns : TelnetAcceptSink(c)
    \/ \E c \in TelnetConns : TelnetReadUsernameSink(c)
    \/ \E c \in TelnetConns : TelnetReadPasswordSink(c)
    \/ \E c \in TelnetConns : TelnetShellStartSink(c)
    \/ \E c \in TelnetConns : TelnetShellStepSink(c)
    \/ \E c \in TelnetConns, chunk \in SinkChunks : TelnetPeerSendSink(c, chunk)
    \/ \E c \in TelnetConns : TelnetPeerCloseSink(c)
    \/ \E c \in TelnetConns : TelnetPeerResetSink(c)

\* at most MaxLoginCalls direct calls of handle_login_attempt in a behaviour
MaxLoginCalls == 1

\* the credentials handle_login_attempt is called with: every name and
\* password of the list, and near misses
LoginUsers ==
    {"", "admin", "root", "user", "guest", "support", "Admin", "toor", "administrator"}

LoginPasswords ==
    {"", "admin", "root", "password", "123456", "user", "guest", "support", "1234",
     "toor", "pass", "Password"}

\* handle_login_attempt(client_ip, username, password), called on its own
HandleLoginAttempt(c, username, password) ==
    /\ UNCHANGED notTelnet
    /\ tn_stats.login_attempts < MaxLoginCalls
    /\ tn_stats' = LoginStats(tn_stats, username, password)
    /\ tn_events' = TelnetLogEvent(tn_events, LoginAttemptEvent(c, username, password))
    /\ tn' = tn
    /\ tn_steps' = tn_steps

NextLogin ==
    \E c \in TelnetConns, username \in LoginUsers, password \in LoginPasswords :
        HandleLoginAttempt(c, username, password)

(***************************************************************************)
(* handle_login_attempt on several connection threads.  The three counter  *)
(* updates are each a read of the old value followed by a store of the     *)
(* value read plus one; another thread can run between the two.            *)
(***************************************************************************)
LoginThreads == {"c1", "c2", "c3"}

RaceUsers == {"admin", "root"}

RacePasswords == {"admin"}

\* the counters in the order handle_login_attempt updates them
CounterOrder == <<"login_attempts", "common_usernames", "common_passwords">>

\* self.stats['login_attempts'], self.stats['common_usernames'].get(username, 0),
\* self.stats['common_passwords'].get(password, 0)
ReadCounter(stats, i, username, password) ==
    CASE i = 1 -> stats.login_attempts
      [] i = 2 -> Get(stats.common_usernames, username, 0)
      [] i = 3 -> Get(stats.common_passwords, password, 0)

\* self.stats[...] = value
WriteCounter(stats, i, username, password, value) ==
    CASE i = 1 -> [stats EXCEPT !.login_attempts = value]
      [] i = 2 -> [stats EXCEPT !.common_usernames = Put(@, username, value)]
      [] i = 3 -> [stats EXCEPT !.common_passwords = Put(@, password, value)]

\* handle_client calls handle_login_attempt(client_ip, username, password)
LoginCall(t) ==
    /\ lt[t].pc = "idle"
    /\ \E username \in RaceUsers, password \in RacePasswords :
        lt' = [lt EXCEPT ![t] = [pc |-> "load", i |-> 1, username |-> username,
                                 password |-> password, value |-> 0]]
    /\ UNCHANGED telnetVars
    /\ UNCHANGED notRace

\* the thread reads the counter it is about to update
LoginLoad(t) ==
    /\ lt[t].pc = "load"
    /\ lt' = [lt EXCEPT ![t].pc = "store",
                        ![t].value = ReadCounter(tn_stats, lt[t].i,
                                                 lt[t].username, lt[t].password)]
    /\ UNCHANGED telnetVars
    /\ UNCHANGED notRace

\* the thread stores the value it read plus one
LoginStore(t) ==
    /\ lt[t].pc = "store"
    /\ tn_stats' = WriteCounter(tn_stats, lt[t].i, lt[t].username, lt[t].password,
                                lt[t].value + 1)
    /\ lt' = IF lt[t].i < Len(CounterOrder)
             THEN [lt EXCEPT ![t].pc = "load", ![t].i = @ + 1]
             ELSE [lt EXCEPT ![t].pc = "log"]
    /\ UNCHANGED <<tn, tn_steps, tn_events>>
    /\ UNCHANGED notRace

\* self.log_event(event_data)
LoginLogEvent(t) ==
    /\ lt[t].pc = "log"
    /\ tn_events' = TelnetLogEvent(tn_events,
                        LoginAttemptEvent(t, lt[t].username, lt[t].password))
    /\ lt' = [lt EXCEPT ![t].pc = "done"]
    /\ UNCHANGED <<tn, tn_steps, tn_stats>>
    /\ UNCHANGED notRace

InitRace ==
    lt = [t \in LoginThreads |->
            [pc |-> "idle", i |-> 0, username |-> None, password |-> None, value |-> 0]]

NextRace ==
    \E t \in LoginThreads :
        \/ LoginCall(t)
        \/ LoginLoad(t)
        \/ LoginStore(t)
        \/ LoginLogEvent(t)

\* lower-case letter -> upper-case letter
UpperMap ==
    [c \in {CharAt(LowerLetters, i) : i \in 1..Len(LowerLetters)} |->
        CharAt(UpperLetters, CHOOSE i \in 1..Len(LowerLetters) : CharAt(LowerLetters, i) = c)]

UpperChar(c) == IF c \in DOMAIN UpperMap THEN UpperMap[c] ELSE c

RECURSIVE Upper(_)
Upper(s) == IF s = "" THEN "" ELSE UpperChar(CharAt(s, 1)) \o Upper(SubSeq(s, 2, Len(s)))

\* the command with its first character in upper case
Capitalized(s) == IF s = "" THEN "" ELSE UpperChar(CharAt(s, 1)) \o SubSeq(s, 2, Len(s))

\* the commands simulate_command_response is called with, lower-case and
\* trimmed: every entry of the chain, and near misses
ShellBases ==
    {"ls", "dir", "pwd", "whoami", "id", "ps", "uname -a", "exit", "quit", "logout",
     "cat x", "cat /etc/passwd", "cat", "cats x", "uname", "ls -l", "wget x", "lsx", ""}

\* the white space put around a command
ShellPads == {"", " ", "\t "}

\* each command as typed: in lower case, in upper case or capitalized, with
\* white space before and after it
ShellCommands ==
    UNION {{[base |-> b, text |-> l \o t \o r] :
                t \in {b, Upper(b), Capitalized(b)}, l \in ShellPads, r \in ShellPads} :
           b \in ShellBases}

\* response = self.simulate_command_response(command)
SimulateCommandResponse ==
    /\ UNCHANGED notShell
    /\ sh_reply = None
    /\ sh_reply' = simulate_command_response(sh_cmd.text)
    /\ sh_cmd' = sh_cmd

InitShell ==
    /\ sh_cmd = [base |-> "ls", text |-> "ls"]
    /\ sh_reply = None

InitShellProbe ==
    /\ sh_cmd \in ShellCommands
    /\ sh_reply = None

NextShell == SimulateCommandResponse

(***************************************************************************)
(* Authentication operations of the SSH, FTP and HTTP decoys               *)
(***************************************************************************)
\* at most MaxAuthCalls authentication operations in a behaviour
MaxAuthCalls == 2

\* the credential pairs tried: both empty, an empty password, none empty
AuthCreds == {<<"", "">>, <<"root", "">>, <<"root", "toor">>}

\* one completed authentication operation: what it was given, what it answered
\* and the events it handed to log_event
AuthCall(decoy, username, password, result, events) ==
    [decoy |-> decoy, username |-> username, password |-> password,
     result |-> result, events |-> events]

\* the history with one more completed operation
Called(calls, call) == Put(calls, call, Get(calls, call, 0) + 1)

InitAuth == auth_calls = EmptyMap

(***************************************************************************)
(* SSH DECOY  (src/honeypots/ssh/ssh_honeypot.py)                          *)
(***************************************************************************)
SSHConns == {"s1"}

\* the credential pairs SSH peers try: an empty username is among them
SSHCreds == AuthCreds \cup {<<"", "toor">>, <<"admin", "admin">>}

SSHLogEvent(events, event_data) ==
    Append(events,
           [timestamp |-> "utcnow", service |-> "ssh",
            honeypot_type |-> "ssh_honeypot", version |-> "1.0.0"] @@ event_data)

\* handle_auth(username, password, client_ip): statistics, one auth_attempt
\* event, and the answer False
handle_auth(stats, events, c, username, password) ==
    [stats |-> [stats EXCEPT !.auth_attempts = @ + 1,
                             !.unique_ips = @ \cup {ConnIP(c)},
                             !.common_usernames = Incr(@, username),
                             !.common_passwords = Incr(@, password)],
     events |-> SSHLogEvent(events,
                    [event_type |-> "auth_attempt", by |-> c, source_ip |-> ConnIP(c),
                     username |-> username, password |-> password, success |-> FALSE,
                     user_agent |-> "ssh_client", attack_type |-> "brute_force"]),
     ret |-> FALSE]

\* faulty variant: an empty password is let in
AuthAnswerEmptyOk(handled, password) ==
    IF password = "" THEN "AUTH_SUCCESSFUL" ELSE "AUTH_FAILED"

\* SSHServerInterface.check_auth_password: whatever handle_auth answered,
\* return paramiko.AUTH_FAILED
AuthAnswer(handled, password) == "AUTH_FAILED"

\* handle_client up to transport.accept: the connection event, the transport
\* and start_server, which raises when the negotiation fails
SSHAccept(c) ==
    /\ UNCHANGED notSSH
    /\ UNCHANGED authVars
    /\ ssh[c].pc = "idle"
    /\ ssh_stats' = [ssh_stats EXCEPT !.total_connections = @ + 1]
    /\ LET ev == SSHLogEvent(ssh_events,
                    [event_type |-> "connection", by |-> c, source_ip |-> ConnIP(c),
                     destination_port |-> 22, protocol |-> "ssh"])
       IN  \E negotiated \in BOOLEAN :
            IF negotiated
            THEN /\ ssh' = [ssh EXCEPT ![c].pc = "waiting", ![c].tr = "active"]
                 /\ ssh_events' = ev
            ELSE /\ ssh' = [ssh EXCEPT ![c].pc = "closed", ![c].tr = "dead"]
                 /\ ssh_events' = SSHLogEvent(ev,
                        [event_type |-> "disconnect", by |-> c, source_ip |-> ConnIP(c),
                         duration |-> "unknown", reason |-> "auth_failed"])

\* the transport thread reads a password authentication request off the socket
SSHAuthRequest(c, username, password) ==
    /\ UNCHANGED notSSH
    /\ UNCHANGED authVars
    /\ ssh[c].pc = "waiting"
    /\ ssh[c].tr = "active"
    /\ BagSize(auth_calls) < MaxAuthCalls
    /\ ssh' = [ssh EXCEPT ![c].tr = "auth",
                          ![c].req = [username |-> username, password |-> password]]
    /\ UNCHANGED <<ssh_events, ssh_stats>>

\* the transport thread runs check_auth_password on the request it read
SSHCheckAuthPassword(c) ==
    /\ UNCHANGED notSSH
    /\ ssh[c].tr = "auth"
    /\ LET h == handle_auth(ssh_stats, ssh_events, c,
                            ssh[c].req.username, ssh[c].req.password)
       IN  /\ ssh_stats' = h.stats
           /\ ssh_events' = h.events
           /\ auth_calls' = Called(auth_calls,
                AuthCall("ssh", ssh[c].req.username, ssh[c].req.password,
                         AuthAnswer(h.ret, ssh[c].req.password),
                         SubSeq(h.events, Len(ssh_events) + 1, Len(h.events))))
    \* with the socket closed the thread's next read fails and it ends
    /\ ssh' = [ssh EXCEPT ![c].tr = IF ssh[c].pc = "closed" THEN "dead" ELSE "active"]

\* transport.accept(timeout=30) returns None (no channel is ever opened, the
\* authentication never succeeds); finally: close the socket, log the disconnect.
\* The transport thread is not joined: a request it has read is still served.
SSHAcceptReturns(c) ==
    /\ UNCHANGED notSSH
    /\ UNCHANGED authVars
    /\ ssh[c].pc = "waiting"
    /\ ssh' = [ssh EXCEPT ![c].pc = "closed",
                          ![c].tr = IF @ = "active" THEN "dead" ELSE @]
    /\ ssh_events' = SSHLogEvent(ssh_events,
            [event_type |-> "disconnect", by |-> c, source_ip |-> ConnIP(c),
             duration |-> "unknown", reason |-> "auth_failed"])
    /\ UNCHANGED ssh_stats

InitSSH ==
    /\ ssh = [c \in SSHConns |->
                [pc |-> "idle", tr |-> "none",
                 req |-> [username |-> "", password |-> ""]]]
    /\ ssh_events = <<>>
    /\ ssh_stats = [total_connections |-> 0, auth_attempts |-> 0, unique_ips |-> {},
                    common_usernames |-> EmptyMap, common_passwords |-> EmptyMap]

NextSSH ==
    \/ \E c \in SSHConns : SSHAccept(c)
    \/ \E c \in SSHConns, cr \in SSHCreds : SSHAuthRequest(c, cr[1], cr[2])
    \/ \E c \in SSHConns : SSHCheckAuthPassword(c)
    \/ \E c \in SSHConns : SSHAcceptReturns(c)

(***************************************************************************)
(* FTP DECOY  (src/honeypots/ftp/ftp_honeypot.py)                          *)
(***************************************************************************)
\* faulty variant: the fields of the caller are kept where both name a field
FTPLogEventKeep(events, event_data) ==
    Append(events,
           event_data @@ [timestamp |-> "utcnow", service |-> "ftp",
                          honeypot_type |-> "ftp_honeypot", version |-> "1.0.0"])

FTPLogEvent(events, event_data) ==
    Append(events,
           [timestamp |-> "utcnow", service |-> "ftp",
            honeypot_type |-> "ftp_honeypot", version |-> "1.0.0"] @@ event_data)

FTPPeers == {"203.0.113.7"}

\* HoneypotAuthorizer.validate_authentication: statistics, one login_attempt
\* event, then raise Exception("Authentication failed")
validate_authentication(stats, events, username, password, ip) ==
    [stats |-> [stats EXCEPT !.login_attempts = @ + 1,
                             !.common_usernames = Incr(@, username),
                             !.common_passwords = Incr(@, password)],
     events |-> FTPLogEvent(events,
                    [event_type |-> "login_attempt", source_ip |-> ip,
                     username |-> username, password |-> password, success |-> FALSE,
                     attack_type |-> "brute_force"]),
     ret |-> "raised: Authentication failed"]

FTPValidateAuthentication(username, password, ip) ==
    /\ UNCHANGED notFTP
    /\ BagSize(auth_calls) < MaxAuthCalls
    /\ LET v == validate_authentication(ftp_stats, ftp_events, username, password, ip)
       IN  /\ ftp_stats' = v.stats
           /\ ftp_events' = v.events
           /\ auth_calls' = Called(auth_calls,
                AuthCall("ftp", username, password, v.ret,
                         SubSeq(v.events, Len(ftp_events) + 1, Len(v.events))))

InitFTP ==
    /\ ftp_events = <<>>
    /\ ftp_stats = [total_connections |-> 0, login_attempts |-> 0, unique_ips |-> {},
                    common_usernames |-> EmptyMap, common_passwords |-> EmptyMap,
                    file_operations |-> EmptyMap]

NextFTP ==
    \E cr \in AuthCreds, ip \in FTPPeers :
        FTPValidateAuthentication(cr[1], cr[2], ip)

(***************************************************************************)
(* HTTP DECOY  (src/honeypots/http/http_honeypot.py)                       *)
(***************************************************************************)
\* at most MaxHttpRequests requests are served in a behaviour
MaxHttpRequests == 1
\* at most MaxAnalyzeCalls direct calls of analyze_request in a behaviour
MaxAnalyzeCalls == 2

HTTPLogEvent(events, event_data) ==
    Append(events,
           [timestamp |-> "utcnow", service |-> "http",
            honeypot_type |-> "http_honeypot", version |-> "1.0.0"] @@ event_data)

\* the pattern lists of analyze_request, each pattern by its characters
PatternList(patterns) == [i \in 1..Len(patterns) |-> Chars(patterns[i])]

sql_patterns ==
    PatternList(<<"union", "select", "insert", "update", "delete", "drop", "create",
                  "alter", "'", "\"", "--", "/*">>)

xss_patterns ==
    PatternList(<<"<script", "javascript:", "onload=", "onerror=", "alert(",
                  "document.cookie">>)

traversal_patterns == PatternList(<<"../", "..\\">>)

admin_patterns ==
    PatternList(<<"admin", "wp-admin", "phpmyadmin", "login", "administrator", "manager">>)

scanner_agents ==
    PatternList(<<"bot", "crawler", "scanner", "nikto", "sqlmap", "nmap", "masscan">>)

inclusion_patterns == PatternList(<<"include", "require">>)

\* a TLA+ string cannot hold a backquote: "~" stands for it, and no modelled
\* request holds either character
Backquote == "~"

cmd_patterns == PatternList(<<"|", ";", "&&", "||", Backquote, "$", "$(">>)

\* any(pattern in text for pattern in patterns)
AnyIn(patterns, text) == \E i \in 1..Len(patterns) : Contains(text, patterns[i])

\* faulty variant: a rule of level medium appends its tag and leaves the level
RuleTagOnly(acc, condition, tag, level) ==
    IF condition
    THEN [attack_types |-> Append(acc.attack_types, tag),
          threat_level |-> IF level = "medium" THEN acc.threat_level ELSE level]
    ELSE acc

\* if <condition>: attack_types.append(tag); threat_level = level
Rule(acc, condition, tag, level) ==
    IF condition
    THEN [attack_types |-> Append(acc.attack_types, tag), threat_level |-> level]
    ELSE acc

\* faulty variant: the rules after the first are chained with elif
analyze_request_elif(self, request_data) ==
    LET uri == Chars(Lower(request_data.request_uri))
        user_agent == Chars(Lower(request_data.user_agent))
        hit(tag, level) == [attack_types |-> <<tag>>, threat_level |-> level]
        r == IF AnyIn(sql_patterns, uri) THEN hit("sql_injection", "high")
             ELSE IF AnyIn(xss_patterns, uri) THEN hit("xss", "high")
             ELSE IF Contains(uri, traversal_patterns[1]) \/ Contains(uri, traversal_patterns[2])
                  THEN hit("directory_traversal", "medium")
             ELSE IF AnyIn(admin_patterns, uri) THEN hit("admin_access", "medium")
             ELSE IF AnyIn(scanner_agents, user_agent) THEN hit("automated_scan", "medium")
             ELSE IF Contains(uri, inclusion_patterns[1]) \/ Contains(uri, inclusion_patterns[2])
                  THEN hit("file_inclusion", "high")
             ELSE IF AnyIn(cmd_patterns, uri) THEN hit("command_injection", "high")
             ELSE [attack_types |-> <<>>, threat_level |-> "low"]
    IN  [attack_types |-> r.attack_types, threat_level |-> r.threat_level,
         self |-> self, request_data |-> request_data]

\* faulty variant: a source that was seen before is rated high
analyze_request_stateful(self, request_data) ==
    LET uri == Chars(Lower(request_data.request_uri))
        user_agent == Chars(Lower(request_data.user_agent))
        r0 == [attack_types |-> <<>>, threat_level |-> "low"]
        r1 == Rule(r0, AnyIn(sql_patterns, uri), "sql_injection", "high")
        r2 == Rule(r1, AnyIn(xss_patterns, uri), "xss", "high")
        r3 == Rule(r2, Contains(uri, traversal_patterns[1]) \/ Contains(uri, traversal_patterns[2]),
                   "directory_traversal", "medium")
        r4 == Rule(r3, AnyIn(admin_patterns, uri), "admin_access", "medium")
        r5 == Rule(r4, AnyIn(scanner_agents, user_agent), "automated_scan", "medium")
        r6 == Rule(r5, Contains(uri, inclusion_patterns[1]) \/ Contains(uri, inclusion_patterns[2]),
                   "file_inclusion", "high")
        r7 == Rule(r6, AnyIn(cmd_patterns, uri), "command_injection", "high")
    IN  [attack_types |-> r7.attack_types,
         threat_level |-> IF self.stats.total_requests > 0 THEN "high" ELSE r7.threat_level,
         self |-> self, request_data |-> request_data]

\* HTTPHoneypot.analyze_request(self, request_data): the seven rules in the
\* order of the code, each appending its tag and overwriting threat_level.
\* The result carries the honeypot and the request record as the call left them.
analyze_request(self, request_data) ==
    LET uri == Chars(Lower(request_data.request_uri))
        user_agent == Chars(Lower(request_data.user_agent))
        r0 == [attack_types |-> <<>>, threat_level |-> "low"]
        r1 == Rule(r0, AnyIn(sql_patterns, uri), "sql_injection", "high")
        r2 == Rule(r1, AnyIn(xss_patterns, uri), "xss", "high")
        r3 == Rule(r2, Contains(uri, traversal_patterns[1]) \/ Contains(uri, traversal_patterns[2]),
                   "directory_traversal", "medium")
        r4 == Rule(r3, AnyIn(admin_patterns, uri), "admin_access", "medium")
        r5 == Rule(r4, AnyIn(scanner_agents, user_agent), "automated_scan", "medium")
        r6 == Rule(r5, Contains(uri, inclusion_patterns[1]) \/ Contains(uri, inclusion_patterns[2]),
                   "file_inclusion", "high")
        r7 == Rule(r6, AnyIn(cmd_patterns, uri), "command_injection", "high")
    IN  [attack_types |-> r7.attack_types, threat_level |-> r7.threat_level,
         self |-> self, request_data |-> request_data]

Honeypot == [stats |-> http_stats]

RequestData(method, uri, ua) == [method |-> method, request_uri |-> uri, user_agent |-> ua]

NoCall == [n |-> 0]

\* a direct call of honeypot.analyze_request on the request under test
AnalyzeRequest ==
    /\ UNCHANGED notHTTP
    /\ UNCHANGED authVars
    /\ h_last.n < MaxAnalyzeCalls
    /\ LET a == analyze_request(Honeypot, h_req)
           res == [attack_types |-> a.attack_types, threat_level |-> a.threat_level]
       IN  /\ http_stats' = a.self.stats
           /\ h_req' = a.request_data
           /\ h_first' = IF h_last.n = 0 THEN [result |-> res, stats |-> http_stats]
                        ELSE h_first
           /\ h_last' = [n |-> h_last.n + 1, result |-> res,
                         request_before |-> h_req, request_after |-> a.request_data,
                         stats_before |-> http_stats, stats_after |-> a.self.stats]
    /\ UNCHANGED http_events

LoginPaths == {"/login", "/admin", "/wp-admin"}

GetRoutes ==
    {"/", "/filemanager", "/files", "/phpmyadmin", "/database", "/search", "/user",
     "/api/users", "/api/config", "/robots.txt"}

\* faulty variant: the login routes log an attempt whatever the method
RouteAnyMethod(method, path) ==
    IF path \in LoginPaths THEN "Login Failed"
    ELSE IF method # "GET" THEN "405"
    ELSE IF path \in GetRoutes THEN "200" ELSE "404"

\* the route Flask dispatches to after before_request, and what it answers
Route(method, path) ==
    IF path \in LoginPaths
    THEN IF method = "POST" THEN "Login Failed" ELSE "Admin Login"
    ELSE IF method # "GET" THEN "405"
    ELSE IF path \in GetRoutes THEN "200" ELSE "404"

\* one request: log_request (before_request), then the route handler
HTTPServe(method, path, query, ua, username, password, ip) ==
    /\ UNCHANGED notHTTP
    /\ method = "POST" /\ path \in LoginPaths => BagSize(auth_calls) < MaxAuthCalls
    /\ LET stats1 == [http_stats EXCEPT !.total_requests = @ + 1,
                                        !.unique_ips = @ \cup {ip},
                                        !.request_methods = Incr(@, method),
                                        !.user_agents = Incr(@, ua)]
           \* request.full_path: the path, "?", the query string
           request_data == RequestData(method, path \o "?" \o query, ua)
           a == analyze_request([stats |-> stats1], request_data)
           RECURSIVE CountTags(_, _)
           CountTags(m, i) ==
               IF i > Len(a.attack_types) THEN m
               ELSE CountTags(Incr(m, a.attack_types[i]), i + 1)
           stats2 == [a.self.stats EXCEPT !.attack_types = CountTags(@, 1)]
           ev1 == HTTPLogEvent(http_events,
                    [event_type |-> "http_request", source_ip |-> ip] @@ a.request_data @@
                    [attack_types |-> a.attack_types, threat_level |-> a.threat_level])
       IN  /\ http_stats' = stats2
           /\ IF Route(method, path) = "Login Failed"
              THEN LET ev2 == HTTPLogEvent(ev1,
                                [event_type |-> "login_attempt", source_ip |-> ip,
                                 username |-> username, password |-> password,
                                 success |-> FALSE, attack_type |-> "credential_stuffing"])
                   IN  /\ http_events' = ev2
                       /\ auth_calls' = Called(auth_calls,
                            AuthCall("http", username, password, Route(method, path),
                                     SubSeq(ev2, Len(http_events) + 1, Len(ev2))))
              ELSE /\ http_events' = ev1
                   /\ auth_calls' = auth_calls
    /\ UNCHANGED <<h_req, h_first, h_last>>

HTTPRequest(method, path, query, ua, username, password, ip) ==
    /\ http_stats.total_requests < MaxHttpRequests
    /\ HTTPServe(method, path, query, ua, username, password, ip)

InitHTTPState ==
    /\ http_events = <<>>
    /\ http_stats = [total_requests |-> 0, unique_ips |-> {}, attack_types |-> EmptyMap,
                     user_agents |-> EmptyMap, request_methods |-> EmptyMap]
    /\ h_first = [result |-> [attack_types |-> <<>>, threat_level |-> "low"],
                  stats |-> [total_requests |-> 0, unique_ips |-> {},
                             attack_types |-> EmptyMap, user_agents |-> EmptyMap,
                             request_methods |-> EmptyMap]]
    /\ h_last = NoCall

InitHTTP ==
    /\ InitHTTPState
    /\ h_req = RequestData("GET", "/?", "")

HttpMethods == {"GET", "POST"}

UriHeads == {"/", "/search?q=", "/Admin/", "/../../etc/passwd"}

UriTails == {"", "' OR 1=1 --", "<SCRIPT>alert(1)", "..\\boot.ini", "include", ";ls"}

UserAgents == {"Mozilla/5.0", "sqlmap/1.0", "GoogleBot"}

\* the requests analyze_request is tried on
Requests ==
    {RequestData(m, h \o t, ua) :
        m \in HttpMethods, h \in UriHeads, t \in UriTails, ua \in UserAgents}

InitHTTPProbe ==
    /\ InitHTTPState
    /\ h_req \in Requests

HttpPeers == {"192.0.2.9"}

\* the requests served between two calls of analyze_request
NextHTTP ==
    \/ AnalyzeRequest
    \/ \E m \in HttpMethods, path \in {"/login", "/search"}, ip \in HttpPeers :
            HTTPRequest(m, path, "q=<script>", "nikto", "admin", "", ip)

\* the logins tried on the HTTP decoy
NextHTTPLogin ==
    \E path \in LoginPaths, ip \in HttpPeers,
       in \in {<<"GET", "", "">>} \cup {<<"POST", cr[1], cr[2]>> : cr \in AuthCreds} :
        HTTPRequest(in[1], path, "", "Mozilla/5.0", in[2], in[3], ip)

\* at most MaxRouteRequests requests are served in a behaviour of the routes
MaxRouteRequests == 2

\* the three login routes, a GET route and a path no route matches
RoutePaths == LoginPaths \cup {"/search", "/nope"}

\* requests of both methods on every kind of route
HTTPAnyRequest ==
    /\ http_stats.total_requests < MaxRouteRequests
    /\ \E m \in HttpMethods, path \in RoutePaths, query \in {"", "q=<script>"},
          cr \in {<<"admin", "">>, <<"", "x">>}, ip \in HttpPeers :
            /\ (m = "POST" /\ path \in LoginPaths) \/ cr = <<"admin", "">>
            /\ HTTPServe(m, path, query, "nikto", cr[1], cr[2], ip)

NextHTTPRoutes == HTTPAnyRequest

(***************************************************************************)
(* The listener of a decoy.  Telnet and SSH: start() accepts in a loop and *)
(* starts a thread per socket.  FTP: main() configures pyftpdlib's         *)
(* FTPServer with max_cons and max_cons_per_ip.  Each decoy is a process   *)
(* of its own: a behaviour follows one listener.                           *)
(***************************************************************************)
ListenerDecoys == {"ftp", "ssh", "telnet"}

\* the decoys whose accept loop is in src/
ThreadedDecoys == {"ssh", "telnet"}

ListenerIPs == {"198.51.100.1", "198.51.100.2"}

\* server.max_cons, server.max_cons_per_ip
MaxCons == 256
MaxConsPerIp == 5

\* at most MaxAccepts sockets accepted and MaxAcceptErrors failed accepts in a
\* behaviour
MaxAccepts == 6
MaxAcceptErrors == 1

\* the sockets whose handler is running
Live(l) == {id \in DOMAIN l.threads : l.threads[id] = "running"}

LiveFrom(l, ip) == {id \in Live(l) : l.socks[id] = ip}

\* the admission of an accepted socket: FTPServer refuses it beyond max_cons
\* or max_cons_per_ip; start() of the Telnet and SSH decoys has no condition
Admits(l, id) ==
    IF l.decoy = "ftp"
    THEN /\ Cardinality(Live(l)) < MaxCons
         /\ Cardinality(LiveFrom(l, l.socks[id])) < MaxConsPerIp
    ELSE TRUE

\* faulty variant: the loop serves the connection itself and accepts again
\* when no handler is running
CanAcceptIdle(l) == l.pc = "accept" /\ Live(l) = {}

\* the loop is blocked in server_socket.accept()
CanAccept(l) == l.pc = "accept"

\* accept() returns a socket
ListenerAccept ==
    /\ CanAccept(lsn)
    /\ Len(lsn.socks) < MaxAccepts
    /\ \E ip \in ListenerIPs :
        lsn' = [lsn EXCEPT !.socks = Append(@, ip), !.pending = Len(lsn.socks) + 1,
                           !.pc = "spawn"]
    /\ UNCHANGED notListen

\* accept() raises: the error is logged and the loop goes on
ListenerAcceptError ==
    /\ CanAccept(lsn)
    /\ lsn.errors < MaxAcceptErrors
    /\ lsn' = [lsn EXCEPT !.errors = @ + 1]
    /\ UNCHANGED notListen

\* the socket gets its handler (a thread of its own for Telnet and SSH), or
\* is refused, and the loop returns to accept
ListenerHandOver ==
    /\ lsn.pc = "spawn"
    /\ lsn' = IF Admits(lsn, lsn.pending)
              THEN [lsn EXCEPT !.threads = Put(@, lsn.pending, "running"),
                               !.pending = 0, !.pc = "accept"]
              ELSE [lsn EXCEPT !.refused = @ \cup {lsn.pending},
                               !.pending = 0, !.pc = "accept"]
    /\ UNCHANGED notListen

\* a handler ends; a handler may also never end
ListenerHandlerEnds ==
    /\ \E id \in Live(lsn) : lsn' = [lsn EXCEPT !.threads[id] = "done"]
    /\ UNCHANGED notListen

\* the telnet listener, about to accept
InitListen ==
    lsn = [decoy |-> "telnet", pc |-> "accept", socks |-> <<>>, pending |-> 0,
           threads |-> EmptyMap, refused |-> {}, errors |-> 0]

\* the listener of any of the three decoys
InitListenProbe ==
    \E d \in ListenerDecoys :
        lsn = [decoy |-> d, pc |-> "accept", socks |-> <<>>, pending |-> 0,
               threads |-> EmptyMap, refused |-> {}, errors |-> 0]

NextListen ==
    \/ ListenerAccept
    \/ ListenerAcceptError
    \/ ListenerHandOver
    \/ ListenerHandlerEnds

\* KeyboardInterrupt reaches the accept loop: break, finally
\* server_socket.close(), start() and main() return and the interpreter exits.
\* The handlers are daemon threads and are not joined: a handler that has not
\* reached its finally clause stops where it is; a socket accepted and not yet
\* handed over never gets a handler.
ListenerInterrupt ==
    /\ lsn.decoy \in ThreadedDecoys
    /\ lsn.pc \in {"accept", "spawn"}
    /\ lsn' = [lsn EXCEPT !.pc = "exited",
                          !.pending = 0,
                          !.threads = [id \in DOMAIN lsn.threads |->
                                          IF lsn.threads[id] = "running"
                                          THEN "killed" ELSE lsn.threads[id]]]
    /\ UNCHANGED notListen

NextShutdown ==
    \/ NextListen
    \/ ListenerInterrupt

(***************************************************************************)
(* log_event of the four decoys, called with the dictionaries of its call  *)
(* sites.                                                                  *)
(***************************************************************************)
Decoys == {"ftp", "http", "ssh", "telnet"}

\* at most MaxEventCalls calls of log_event in a behaviour
MaxEventCalls == 2

\* the 'event_type' of the dictionaries each decoy builds for log_event
CallSiteEventTypes(decoy) ==
    CASE decoy = "telnet" -> {"connection", "login_attempt", "command_execution", "disconnect"}
      [] decoy = "ssh" -> {"auth_attempt", "connection", "disconnect", "pubkey_auth"}
      [] decoy = "ftp" -> {"connection", "disconnect", "login_success", "logout",
                           "file_download", "file_upload", "login_attempt"}
      [] decoy = "http" -> {"http_request", "login_attempt"}

\* the dictionaries handed to log_event: the event type alone, or with fields
\* of the caller's own that carry the names log_event writes
CallerDicts(decoy) ==
    {[event_type |-> t] : t \in CallSiteEventTypes(decoy)} \cup
    {[event_type |-> t, note |-> "caller", service |-> "caller",
      timestamp |-> "caller", honeypot_type |-> "caller", version |-> "caller"] :
        t \in CallSiteEventTypes(decoy)}

EventCalls == Len(tn_events) + Len(ssh_events) + Len(ftp_events) + Len(http_events)

TelnetLogEventCall ==
    /\ EventCalls < MaxEventCalls
    /\ \E d \in CallerDicts("telnet") : tn_events' = TelnetLogEvent(tn_events, d)
    /\ UNCHANGED <<tn, tn_steps, tn_stats>>
    /\ UNCHANGED notTelnet

SSHLogEventCall ==
    /\ EventCalls < MaxEventCalls
    /\ \E d \in CallerDicts("ssh") : ssh_events' = SSHLogEvent(ssh_events, d)
    /\ UNCHANGED <<ssh, ssh_stats, authVars>>
    /\ UNCHANGED notSSH

FTPLogEventCall ==
    /\ EventCalls < MaxEventCalls
    /\ \E d \in CallerDicts("ftp") : ftp_events' = FTPLogEvent(ftp_events, d)
    /\ UNCHANGED <<ftp_stats, authVars>>
    /\ UNCHANGED notFTP

HTTPLogEventCall ==
    /\ EventCalls < MaxEventCalls
    /\ \E d \in CallerDicts("http") : http_events' = HTTPLogEvent(http_events, d)
    /\ UNCHANGED <<http_stats, h_req, h_first, h_last, authVars>>
    /\ UNCHANGED notHTTP

NextLogEvent ==
    \/ TelnetLogEventCall
    \/ SSHLogEventCall
    \/ FTPLogEventCall
    \/ HTTPLogEventCall

(***************************************************************************)
(* Decoys: claims                                                          *)
(***************************************************************************)
\* the positions of the events of log that the handler of connection c emitted
EventsBy(log, c) == {i \in 1..Len(log) : log[i].by = c}

\* C3: for every pair of username line and password line the Telnet handler
\* has read from the peer, empty lines included, a closed connection has
\* emitted exactly one login_attempt event carrying that pair with
\* success = False.
C3_EveryPairLogged ==
    \A c \in TelnetConns :
        (/\ tn[c].pc = "closed"
         /\ Len(tn[c].reads) >= 2
         /\ tn[c].reads[1].outcome = "line"
         /\ tn[c].reads[2].outcome = "line")
        => Cardinality({i \in EventsBy(tn_events, c) :
                /\ tn_events[i].event_type = "login_attempt"
                /\ tn_events[i].username = tn[c].reads[1].ret
                /\ tn_events[i].password = tn[c].reads[2].ret
                /\ tn_events[i].success = FALSE}) = 1

AuthEventTypes == {"login_attempt", "auth_attempt"}

Denial(decoy) ==
    IF decoy = "ssh" THEN "AUTH_FAILED"
    ELSE IF decoy = "ftp" THEN "raised: Authentication failed"
    ELSE "Login Failed"

AuthEventsIn(log) == {i \in 1..Len(log) : log[i].event_type \in AuthEventTypes}

\* number of authentication operations the decoy has completed
CallsOf(decoy) ==
    BagSize(Restrict(auth_calls, {call \in DOMAIN auth_calls : call.decoy = decoy}))

\* C4: every authentication operation of the SSH, FTP and HTTP decoys, for
\* every username and password including empty strings, ends in that decoy's
\* denial and emits exactly one login_attempt/auth_attempt event, which carries
\* the credentials and success = False; no decoy logs such an event otherwise.
C4_AuthAlwaysDenied ==
    /\ \A call \in DOMAIN auth_calls :
        LET made == AuthEventsIn(call.events)
        IN  /\ call.result = Denial(call.decoy)
            /\ Cardinality(made) = 1
            /\ \A j \in made :
                /\ call.events[j].success = FALSE
                /\ call.events[j].username = call.username
                /\ call.events[j].password = call.password
    /\ Cardinality(AuthEventsIn(ssh_events)) = CallsOf("ssh")
    /\ Cardinality(AuthEventsIn(ftp_events)) = CallsOf("ftp")
    /\ Cardinality(AuthEventsIn(http_events)) = CallsOf("http")

\* C4 witness: two decoys have each answered an authentication, one of them
\* with an empty username and an empty password.
C4_Witness ==
    \E a, b \in DOMAIN auth_calls :
        /\ a.decoy # b.decoy
        /\ a.username = "" /\ a.password = ""
        /\ b.password # ""

\* the events of connection c begin with its only connection event; a
\* disconnect event is its only one and nothing of c follows it; a closed
\* connection has its disconnect event
Lifecycle(log, c, closed) ==
    LET mine == EventsBy(log, c)
        ofType(t) == {i \in mine : log[i].event_type = t}
    IN  /\ mine # {} => /\ Cardinality(ofType("connection")) = 1
                        /\ \A i \in mine : \A j \in ofType("connection") : j <= i
        /\ Cardinality(ofType("disconnect")) <= 1
        /\ \A i \in mine : \A j \in ofType("disconnect") : i <= j
        /\ closed => ofType("disconnect") # {}

\* C5: on every path of handle_client (Telnet and SSH) the connection's event
\* sequence begins with exactly one connection event and ends with exactly one
\* disconnect event; no event of the connection follows its disconnect event.
C5_ConnectionFirstDisconnectLast ==
    /\ \A c \in TelnetConns : Lifecycle(tn_events, c, tn[c].pc = "closed")
    /\ \A c \in SSHConns : Lifecycle(ssh_events, c, ssh[c].pc = "closed")

\* The rule table of the classifier as the specification states it.
RuleOrder ==
    <<"sql_injection", "xss", "directory_traversal", "admin_access",
      "automated_scan", "file_inclusion", "command_injection">>

SeverityOf(tag) ==
    IF tag \in {"sql_injection", "xss", "file_inclusion", "command_injection"}
    THEN "high" ELSE "medium"

Triggers(tag) ==
    IF tag = "sql_injection"
    THEN {"union", "select", "insert", "update", "delete", "drop", "create", "alter",
          "'", "\"", "--", "/*"}
    ELSE IF tag = "xss"
    THEN {"<script", "javascript:", "onload=", "onerror=", "alert(", "document.cookie"}
    ELSE IF tag = "directory_traversal" THEN {"../", "..\\"}
    ELSE IF tag = "admin_access"
    THEN {"admin", "wp-admin", "phpmyadmin", "login", "administrator", "manager"}
    ELSE IF tag = "automated_scan"
    THEN {"bot", "crawler", "scanner", "nikto", "sqlmap", "nmap", "masscan"}
    ELSE IF tag = "file_inclusion" THEN {"include", "require"}
    ELSE {"|", ";", "&&", "||", Backquote, "$", "$("}

TriggerChars ==
    [tag \in {RuleOrder[i] : i \in 1..Len(RuleOrder)} |-> {Chars(t) : t \in Triggers(tag)}]

\* the rule of tag matches the request: its trigger is in the lowercased URI
\* (the lowercased User-Agent for automated_scan)
Matches(tag, request_data) ==
    LET text == Chars(Lower(IF tag = "automated_scan" THEN request_data.user_agent
                            ELSE request_data.request_uri))
    IN  \E t \in TriggerChars[tag] : Contains(text, t)

MatchedTags(request_data) ==
    LET Hit(tag) == Matches(tag, request_data) IN SelectSeq(RuleOrder, Hit)

MaxLevel(tags) ==
    IF \E i \in 1..Len(tags) : SeverityOf(tags[i]) = "high" THEN "high"
    ELSE IF tags # <<>> THEN "medium" ELSE "low"

\* C6: the threat_level analyze_request returns is the maximum severity over
\* the rules that matched: high whenever a high rule matched, whatever medium
\* rules matched too.
C6_LevelIsMaxSeverity ==
    h_last.n > 0 =>
        h_last.result.threat_level = MaxLevel(MatchedTags(h_last.request_before))

\* C7: each of the seven tags is in the list analyze_request returns if and
\* only if its own trigger matches, independently of the other rules; the list
\* has no duplicate and keeps the fixed rule order.
C7_TagsAreMatchedRules ==
    h_last.n > 0 => h_last.result.attack_types = MatchedTags(h_last.request_before)

\* C7 witness: a request on which a high rule, a medium rule on the URI and the
\* User-Agent rule match together, and one more rule does not.
C7_Witness ==
    /\ h_last.n > 0
    /\ h_last.result.attack_types = <<"sql_injection", "admin_access", "automated_scan">>

\* C8: for every method and User-Agent, the URI /search?q=' OR 1=1 -- gets
\* sql_injection among its tags and threat_level high, and the URI
\* /../../etc/passwd gets the tag directory_traversal and threat_level medium.
C8_ExampleRequests ==
    h_last.n > 0 =>
        LET uri == h_last.request_before.request_uri
            tags == h_last.result.attack_types
            has(tag) == \E i \in 1..Len(tags) : tags[i] = tag
        IN  /\ uri = "/search?q=' OR 1=1 --" =>
                has("sql_injection") /\ h_last.result.threat_level = "high"
            /\ uri = "/../../etc/passwd" =>
                has("directory_traversal") /\ h_last.result.threat_level = "medium"

\* C9: analyze_request is pure: a call returns what the first call on the same
\* request returned, whatever requests were served in between, and leaves the
\* honeypot's statistics and the request record as they were.
C9_AnalyzeIsPure ==
    h_last.n > 0 =>
        /\ h_last.result = h_first.result
        /\ h_last.stats_after = h_last.stats_before
        /\ h_last.request_after = h_last.request_before
        /\ h_req = h_last.request_before

\* C9 witness: a second call on the request, made after a request was served
\* that changed the statistics the first call saw.
C9_Witness ==
    /\ h_last.n >= 2
    /\ h_first.stats.total_requests = 0
    /\ h_last.stats_before.total_requests > 0
    /\ h_last.stats_before.attack_types # EmptyMap

RECURSIVE EditBuffer(_, _)
\* the buffer of the line editor after the bytes bs: an ordinary byte is
\* appended, a backspace or DEL removes the last buffered byte, if any
EditBuffer(buf, bs) ==
    IF bs = <<>> THEN buf
    ELSE IF Head(bs) \in {CR, LF} THEN buf
    ELSE IF Head(bs) \in {BS, DEL}
         THEN EditBuffer(IF buf = <<>> THEN buf ELSE SubSeq(buf, 1, Len(buf) - 1), Tail(bs))
    ELSE EditBuffer(Append(buf, Head(bs)), Tail(bs))

RECURSIVE EditEcho(_, _, _)
\* what the editor echoes in plain mode: each accepted byte, and the erase
\* sequence for each removed byte
EditEcho(buf, bs, echo) ==
    IF bs = <<>> \/ Head(bs) \in {CR, LF} THEN echo
    ELSE IF Head(bs) \in {BS, DEL}
         THEN IF buf = <<>> THEN EditEcho(buf, Tail(bs), echo)
              ELSE EditEcho(SubSeq(buf, 1, Len(buf) - 1), Tail(bs), Append(echo, EraseSeq))
    ELSE EditEcho(Append(buf, Head(bs)), Tail(bs), Append(echo, RawByte(Head(bs))))

RECURSIVE BufferText(_)
\* the bytes of a buffer, written out one by one
BufferText(buf) == IF buf = <<>> THEN "" ELSE RawByte(Head(buf)) \o BufferText(Tail(buf))

\* C10: in plain mode, for every byte sequence ending in CR or LF, get_input
\* returns the edited buffer and echoes each accepted byte and
\* backspace-space-backspace for each removed byte.
C10_PlainLineIsEditedBuffer ==
    \A c \in TelnetConns : \A i \in 1..Len(tn[c].reads) :
        LET r == tn[c].reads[i] IN
        (~r.hide /\ r.outcome = "line")
        => /\ r.ret = BufferText(EditBuffer(<<>>, r.consumed))
           /\ r.echo = EditEcho(<<>>, r.consumed, <<>>)

\* the bytes of a line the editor accepts into its buffer
AcceptedBytes(bs) == SelectSeq(bs, LAMBDA b : b \notin {CR, LF, BS, DEL})

\* C11: in masked mode the sends get_input makes while it reads a line are
\* exactly one "*" per accepted byte (not a terminator, not a backspace/DEL)
\* and nothing else: a backspace or DEL sends nothing and no accepted byte is
\* echoed in clear.
C11_MaskedEchoIsStars ==
    \A c \in TelnetConns : \A i \in 1..Len(tn[c].reads) :
        LET r == tn[c].reads[i] IN
        r.hide => r.echo = [k \in 1..Len(AcceptedBytes(r.consumed)) |-> Star]

\* C11 witness: a masked read that accepted bytes, removed one of them on a
\* backspace and ended with a terminator.
C11_Witness ==
    \E c \in TelnetConns : \E i \in 1..Len(tn[c].reads) :
        LET r == tn[c].reads[i] IN
        /\ r.hide /\ r.outcome = "line"
        /\ \E k \in 2..Len(r.consumed) :
            r.consumed[k] \in {BS, DEL} /\ r.consumed[k - 1] \notin {CR, LF, BS, DEL}
        /\ Len(r.echo) >= 2

\* the login_attempt events of the Telnet decoy
LoginEvents == {i \in 1..Len(tn_events) : tn_events[i].event_type = "login_attempt"}

\* C12: a login_attempt event of handle_login_attempt has attack_type
\* iot_botnet and threat_level high if and only if (username, password) is
\* one of the fifteen fixed pairs, ("admin", "admin") among them; for every
\* other pair it has attack_type brute_force and threat_level medium.
C12_IotPairsClassified ==
    /\ Cardinality(IotCredentials) = 15
    /\ <<"admin", "admin">> \in IotCredentials
    /\ \A i \in LoginEvents :
        LET e == tn_events[i] IN
        IF <<e.username, e.password>> \in IotCredentials
        THEN e.attack_type = "iot_botnet" /\ e.threat_level = "high"
        ELSE e.attack_type = "brute_force" /\ e.threat_level = "medium"

\* C12 witness: the pair ("admin", "admin") was classified.
C12_Witness ==
    \E i \in LoginEvents :
        /\ tn_events[i].username = "admin" /\ tn_events[i].password = "admin"
        /\ tn_events[i].attack_type = "iot_botnet"

\* the states of a connection, in the order of handle_client
PcRank(pc) ==
    CASE pc = "idle" -> 0
      [] pc = "username" -> 1
      [] pc = "password" -> 2
      [] pc = "postauth" -> 3
      [] pc = "shell" -> 4
      [] pc = "closed" -> 5

\* a step keeps the state of each connection, moves it to the next state of
\* the order, or closes it
StepsForward ==
    \A c \in TelnetConns :
        LET a == PcRank(tn[c].pc)
            b == PcRank(tn'[c].pc)
        IN  b = a \/ b = a + 1 \/ b = PcRank("closed")

IsShellPrompt(c, e) == e = Send(ShellPrompt(tn[c].user))

\* before each shell prompt of the trace: the login_attempt event, and after
\* it the "Login incorrect" message
PromptAfterLogin ==
    \A c \in TelnetConns : \A i \in 1..Len(tn[c].trace) :
        IsShellPrompt(c, tn[c].trace[i]) =>
            \E j \in 1..(i - 1), k \in 1..(i - 1) :
                /\ j < k
                /\ tn[c].trace[j] = Emit("login_attempt")
                /\ tn[c].trace[k] = Send(LoginIncorrect)

\* C13: a Telnet connection only moves forward through AwaitUsername,
\* AwaitPassword, PostAuthDelay, ShellLoop, Closed (any state may jump to
\* Closed, none goes back), and a shell prompt is sent only after the
\* login_attempt event was emitted and then "Login incorrect" was sent.
C13_ForwardAndPromptAfterLogin == [][StepsForward]_vars /\ [](PromptAfterLogin)

C13_Witness ==
    \E c \in TelnetConns :
        /\ tn[c].pc = "shell"
        /\ \E i \in 1..Len(tn[c].trace) : IsShellPrompt(c, tn[c].trace[i])
        /\ Len(tn[c].reads) = 2

\* the reads made in ShellLoop: every read after the username and the password
ShellReads(c) == SubSeq(tn[c].reads, 3, Len(tn[c].reads))

\* the non-empty lines read in ShellLoop, in order
ShellLines(c) ==
    LET got == SelectSeq(ShellReads(c), LAMBDA r : r.ret # None /\ r.ret # "")
    IN  [k \in 1..Len(got) |-> got[k].ret]

CommandEvents(c) ==
    SelectSeq(tn_events, LAMBDA e : e.by = c /\ e.event_type = "command_execution")

\* the places of the trace where a command_execution event is emitted
CommandEmits(c) ==
    {i \in 1..Len(tn[c].trace) : tn[c].trace[i] = Emit("command_execution")}

\* the claim's reply table, on the lowercased and trimmed command
ExpectedReply(cmd) ==
    CASE cmd \in {"ls", "dir"} ->
            "\r\nbin  boot  dev  etc  home  lib  media  mnt  opt  proc  root  run  sbin  srv  sys  tmp  usr  var\r\n"
      [] cmd = "pwd" -> "\r\n/home/user\r\n"
      [] cmd = "whoami" -> "\r\nuser\r\n"
      [] cmd = "id" -> "\r\nuid=1000(user) gid=1000(user) groups=1000(user)\r\n"
      [] cmd = "ps" -> "\r\n  PID TTY          TIME CMD\r\n 1234 pts/0    00:00:00 bash\r\n"
      [] cmd = "uname -a" ->
            "\r\nLinux honeypot 5.4.0-74-generic #83-Ubuntu SMP Sat May 8 02:35:39 UTC 2021 x86_64 x86_64 x86_64 GNU/Linux\r\n"
      [] cmd \in {"exit", "quit", "logout"} -> "\r\nlogout\r\n"
      [] Len(cmd) >= 4 /\ SubSeq(cmd, 1, 4) = "cat " -> "\r\ncat: permission denied\r\n"
      [] OTHER -> "\r\n" \o cmd \o ": command not found\r\n"

\* C14: in ShellLoop every non-empty line read gives exactly one
\* command_execution event carrying that line and the session's username, the
\* events are as many as the non-empty lines, and each event is emitted right
\* after its line was read and before the reply to that line is sent.
C14_OneCommandEventPerLine ==
    \A c \in TelnetConns :
        LET lines == ShellLines(c)
            evs == CommandEvents(c)
            tr == tn[c].trace
        IN  /\ Len(evs) = Len(lines)
            /\ Cardinality(CommandEmits(c)) = Len(lines)
            /\ \A k \in 1..Len(evs) :
                  /\ evs[k].command = lines[k]
                  /\ evs[k].username = tn[c].reads[1].ret
            /\ \A i \in CommandEmits(c) :
                  LET k == Cardinality({j \in CommandEmits(c) : j <= i}) IN
                  /\ i > 1 /\ tr[i - 1].op = "read"
                  /\ i < Len(tr) /\ tr[i + 1].op = "send"
                  /\ tr[i + 1].arg = ExpectedReply(Strip(Lower(lines[k])))

C14_Witness ==
    \E c \in TelnetConns :
        /\ Len(CommandEvents(c)) = 2
        /\ Len(ShellReads(c)) = 3
        /\ CommandEvents(c)[1].command # CommandEvents(c)[2].command

\* a read of ShellLoop after which the loop must end
EndsLoop(r) == r.ret = None \/ r.ret = "" \/ WordCount(r.ret) > 10

\* the place of the last get_input return in the trace, 0 if there is none
LastReadAt(c) ==
    LET at == {i \in 1..Len(tn[c].trace) : tn[c].trace[i].op = "read"}
    IN  IF at = {} THEN 0 ELSE CHOOSE i \in at : \A j \in at : j <= i

EventsOf(c) == SelectSeq(tn_events, LAMBDA e : e.by = c)

\* a get_input call that ended by a timeout or a socket error is followed by
\* the close of the socket and the disconnect event, and by nothing else
AbortedReadCloses ==
    \A c \in TelnetConns : \A i \in 1..Len(tn[c].trace) :
        tn[c].trace[i] \in {Read("timeout"), Read("error")} =>
            /\ SubSeq(tn[c].trace, i + 1, Len(tn[c].trace)) = <<Close, Emit("disconnect")>>
            /\ tn[c].pc = "closed"
            /\ EventsOf(c)[Len(EventsOf(c))].event_type = "disconnect"

\* the handler of c is running
Running(c) == tn[c].pc \in {"username", "password", "postauth", "shell"}

\* C17: a read timeout or socket error in AwaitUsername, AwaitPassword or
\* ShellLoop aborts the handler: no prompt, login_attempt or command_execution
\* event follows, the socket is closed and the next event of the connection is
\* its disconnect event; and a running handler, whose peer sends only finitely
\* many bytes, eventually reaches Closed.
C17_AbortAndEventuallyClosed ==
    /\ [](AbortedReadCloses)
    /\ \A c \in TelnetConns : Running(c) ~> (tn[c].pc = "closed")

C17_Witness ==
    \E c \in TelnetConns :
        /\ Len(tn[c].reads) = 4
        /\ tn[c].reads[4].outcome = "timeout"
        /\ tn[c].reads[4].consumed # <<>>
        /\ tn[c].pc = "closed"

\* C18: the username and password fields of a login_attempt event are the
\* line-edited byte sequences the peer entered at the two prompts, with no
\* byte removed or altered, leading and trailing white space included.
C18_LoginEventVerbatim ==
    \A c \in TelnetConns : \A i \in 1..Len(tn_events) :
        (tn_events[i].by = c /\ tn_events[i].event_type = "login_attempt")
        => /\ tn_events[i].username = BufferText(EditBuffer(<<>>, tn[c].reads[1].consumed))
           /\ tn_events[i].password = BufferText(EditBuffer(<<>>, tn[c].reads[2].consumed))

\* C15: the reply of simulate_command_response is the table's reply for the
\* lowercased, trimmed command: the listing for ls and dir, /home/user for
\* pwd, user for whoami, the uid line for id, the process table for ps, the
\* kernel line for `uname -a`, logout for exit, quit and logout, permission
\* denied for a command starting with `cat `, and "<cmd>: command not found"
\* otherwise; so commands that differ only in letter case or surrounding
\* white space get the same reply.
C15_ReplyByNormalizedCommand ==
    sh_reply # None => sh_reply = ExpectedReply(sh_cmd.base)

C15_Witness ==
    /\ sh_reply = "\r\ncat: permission denied\r\n"
    /\ sh_cmd.text = "\t CAT X "

(***************************************************************************)
(* Alerting engine: cleanup and thresholds                                 *)
(***************************************************************************)
\* the instant 24 hours before a cleanup run at `now`
DayBefore == now - 24 * TicksPerHour

\* what a cleanup run must leave: no entry older than 24 hours, every other
\* entry with its instant, and the dispatches as they were
CleanupPost ==
    /\ \A k \in DOMAIN sent_alerts' : ~(sent_alerts'[k] < DayBefore)
    /\ \A k \in DOMAIN sent_alerts :
          ~(sent_alerts[k] < DayBefore) =>
              (k \in DOMAIN sent_alerts' /\ sent_alerts'[k] = sent_alerts[k])
    /\ sent_log' = sent_log

\* C19: after a cleanup run at time t the dedup cache holds no entry whose
\* last_sent is older than t - 24h, every entry that is not older is still
\* there with its last_sent unchanged, and no notification was dispatched.
C19_CleanupEvictsOnlyOld == [][cleanup_old_alerts => CleanupPost]_vars

\* C19 witness: one dispatch whose entry is gone from the cache, and an entry
\* recorded exactly 24 hours ago that is still there.
C19_Witness ==
    /\ \E e \in DOMAIN sent_log : KeyOf(e) \notin DOMAIN sent_alerts
    /\ \E k \in DOMAIN sent_alerts : sent_alerts[k] = DayBefore

\* the configured threshold of each check
ThresholdOf(check) ==
    CASE check = "high_volume" -> ThresholdHighVolume
      [] check = "unique_ips" -> ThresholdUniqueIps
      [] check = "brute_force" -> ThresholdBruteForce
      [] check = "iot_botnet" -> ThresholdIotBotnet

\* the step added no dispatch and no dedup entry for (check, dim)
NothingFor(check, dim) ==
    /\ \A e \in DOMAIN sent_log' :
          (e.check = check /\ e.dim = dim) => Get(sent_log, e, 0) = sent_log'[e]
    /\ \A k \in DOMAIN sent_alerts' :
          (k[1] = check /\ k[2] = dim) => k \in DOMAIN sent_alerts

\* C20: a check whose aggregate is less than or equal to the configured
\* threshold dispatches no notification and adds no entry to the dedup cache
\* (for the brute-force check: for the IP of that aggregate).
C20_NoAlertAtOrBelowThreshold ==
    [][\A p \in last_check'.seen :
           p[2] <= ThresholdOf(last_check'.check) => NothingFor(last_check'.check, p[1])]_vars

\* C20 witness: a check that read an aggregate equal to its threshold, in an
\* hour for which it has neither a dispatch nor a dedup entry.
C20_Witness ==
    \E p \in last_check.seen :
        /\ p[2] = ThresholdOf(last_check.check)
        /\ \A e \in DOMAIN sent_log :
              ~(e.check = last_check.check /\ e.dim = p[1] /\ e.hour = HourBucket(now))
        /\ <<last_check.check, p[1], HourBucket(now)>> \notin DOMAIN sent_alerts
        /\ \E q \in last_check.seen : q[2] > ThresholdOf(last_check.check)

\* the severity the claim fixes for each check
AlertSeverity(check) ==
    CASE check = "unique_ips" -> "medium"
      [] check = "high_volume" -> "high"
      [] check = "brute_force" -> "high"
      [] check = "iot_botnet" -> "critical"

\* C21: every dispatched alert carries the severity fixed by its check: medium
\* for the unique-IP check, high for the high-volume and brute-force checks,
\* critical for the IoT-botnet check, and never another one.
C21_SeverityFixedByCheck ==
    \A e \in DOMAIN sent_log :
        /\ e.check \in {"unique_ips", "high_volume", "brute_force", "iot_botnet"}
        /\ e.severity = AlertSeverity(e.check)

\* C21 witness: a unique-IP alert and an IoT-botnet alert have been dispatched.
C21_Witness ==
    \E e1, e2 \in DOMAIN sent_log :
        /\ e1.check = "unique_ips" /\ e1.severity = "medium"
        /\ e2.check = "iot_botnet" /\ e2.severity = "critical"

\* the attempts made on a channel for the alert with the dedup key k
AttemptsFor(k, channel) ==
    Cardinality({i \in 1..Len(ch_attempts) :
        ch_attempts[i].alert = k /\ ch_attempts[i].channel = channel})

\* C22: for each dispatched alert every configured channel is attempted
\* exactly once (and a channel that is not configured never), also when the
\* email attempt failed; the alert's dedup key is recorded whatever the
\* attempts gave, and the alert is not dispatched again in its hour bucket.
C22_EachChannelOnce ==
    /\ \A e \in DOMAIN sent_log :
          /\ sent_log[e] = 1
          /\ KeyOf(e) \in DOMAIN sent_alerts
          /\ AttemptsFor(KeyOf(e), "email") = IF ch_config.email THEN 1 ELSE 0
          /\ AttemptsFor(KeyOf(e), "slack") = IF ch_config.slack THEN 1 ELSE 0
    /\ \A i \in 1..Len(ch_attempts) :
          \E e \in DOMAIN sent_log : KeyOf(e) = ch_attempts[i].alert

\* C22 witness: an alert whose email attempt and whose Slack attempt both
\* failed, and a later run of the same check in the same hour bucket that saw
\* the breach again.
C22_Witness ==
    \E e \in DOMAIN sent_log :
        /\ \E i, j \in 1..Len(ch_attempts) :
              /\ i < j
              /\ ch_attempts[i] = Attempt(KeyOf(e), "email", "failed")
              /\ ch_attempts[j] = Attempt(KeyOf(e), "slack", "failed")
        /\ last_check.check = e.check
        /\ last_check.dims # {}
        /\ HourBucket(last_check.at) = e.hour
        /\ last_check.at > sent_alerts[KeyOf(e)]

\* a step in which a check of the running cycle returned after its query failed
FailedCheckStep ==
    \E c \in {CheckOrder[i] : i \in 1..Len(CheckOrder)} :
        sched'.ran = Append(sched.ran, [check |-> c, ok |-> FALSE])

\* no check cycle is running and at least one has run
CycleOver == "checks" \notin sched.running /\ sched.pc # "initial"

\* the checks the cycle has run so far are the first checks of run_checks, in order
RanInOrder == \A i \in 1..Len(sched.ran) : sched.ran[i].check = CheckOrder[i]

\* C23: a check whose aggregate query fails dispatches nothing and leaves the
\* dedup cache as it was; the cycle still runs all four checks, in order; and
\* a check that failed in one cycle is run again by the next cycle.
C23_FailedQuerySkipsOnlyThatCheck ==
    /\ [][FailedCheckStep => (sent_alerts' = sent_alerts /\ sent_log' = sent_log)]_vars
    /\ [](/\ Len(sched.ran) <= Len(CheckOrder)
          /\ RanInOrder
          /\ CycleOver => /\ Len(sched.ran) = Len(CheckOrder)
                          /\ \A c \in sched.retry :
                                \E i \in 1..Len(sched.ran) : sched.ran[i].check = c)

\* C23 witness: a finished cycle in which one check failed and a later check
\* of the same cycle read its aggregate, and in which a check that had failed
\* in the cycle before ran again and dispatched its alert.
C23_Witness ==
    /\ CycleOver
    /\ \E i, j \in 1..Len(sched.ran) : i < j /\ ~sched.ran[i].ok /\ sched.ran[j].ok
    /\ \E i \in 1..Len(sched.ran) :
          /\ sched.ran[i].check \in sched.retry
          /\ sched.ran[i].ok
          /\ \E e \in DOMAIN sent_log : e.check = sched.ran[i].check

\* a step that starts a job
StartsJob(job) == job \notin sched.running /\ job \in sched'.running

\* a step that ends a job
EndsJob(job) == job \in sched.running /\ job \notin sched'.running

\* C24: at most one run (check cycle or cleanup) is in progress at any time;
\* a run starts only when no run is in progress, also when it has been due for
\* a while; and the job that has ended is due again one period after its end.
C24_OneRunAtATime ==
    /\ [](Cardinality(sched.running) <= 1)
    /\ [][\A job \in {"checks", "cleanup"} :
            /\ StartsJob(job) => sched.running = {}
            /\ (EndsJob(job) /\ sched.pc = "pending") =>
                    sched'.next_run[job] = now' * MinutesPerTick + sched'.sub + Period[job]]_vars

\* C24 witness: a check cycle started by the schedule has been running for an
\* hour, longer than its period, and the cleanup has become due meanwhile and
\* has not started.
C24_Witness ==
    /\ sched.running = {"checks"}
    /\ sched.pc = "pending"
    /\ SchedTime >= sched.since + Period.cleanup
    /\ sched.next_run.cleanup <= SchedTime
    /\ sched.next_run.cleanup > sched.since

\* a counter map keeps every key and no count goes down
MapGrows(old, new) ==
    \A k \in DOMAIN old : k \in DOMAIN new /\ new[k] >= old[k]

\* C25: under every interleaving of handle_login_attempt on different
\* connection threads, no step lowers login_attempts, or the count of a
\* username or of a password, or removes a counted name.
C25_CountersNeverDecrease ==
    [][/\ tn_stats'.login_attempts >= tn_stats.login_attempts
       /\ MapGrows(tn_stats.common_usernames, tn_stats'.common_usernames)
       /\ MapGrows(tn_stats.common_passwords, tn_stats'.common_passwords)]_vars

\* the types of the events a connection's handler has emitted, in order
EventTypesOf(c) ==
    LET ev == SelectSeq(tn_events, LAMBDA e : e.by = c)
    IN  [k \in 1..Len(ev) |-> ev[k].event_type]

\* connection, then at most one login_attempt, then command_execution events,
\* then at most one disconnect, which is the last event
InHandlerOrder(types) ==
    \A k \in 1..Len(types) :
        CASE types[k] = "connection" -> k = 1
          [] types[k] = "login_attempt" -> k = 2
          [] types[k] = "command_execution" ->
                k > 2 /\ types[2] = "login_attempt"
                      /\ \A j \in 3..k : types[j] = "command_execution"
          [] types[k] = "disconnect" -> k > 1 /\ k = Len(types)
          [] OTHER -> FALSE

\* the event is built from what was read on the connection of its handler
FromOwnConnection(e) ==
    LET c == e.by
    IN  /\ e.source_ip = ConnIP(c)
        /\ e.event_type = "login_attempt" =>
              /\ e.username = tn[c].reads[1].ret /\ e.username \in ConnWords(c)
              /\ e.password = tn[c].reads[2].ret /\ e.password \in ConnWords(c)
        /\ e.event_type = "command_execution" =>
              /\ e.username = tn[c].reads[1].ret /\ e.username \in ConnWords(c)
              /\ e.command \in ConnWords(c)
              /\ \E k \in 3..Len(tn[c].reads) : tn[c].reads[k].ret = e.command

\* C26: with two connections served at once, under every interleaving of
\* their handlers, every event carries the address of the connection whose
\* handler emitted it and the username, password and command read on that
\* connection, and the events of each connection come in the order
\* connection, login_attempt, command_execution..., disconnect.
C26_EventsAttributedPerConnection ==
    /\ \A i \in 1..Len(tn_events) : FromOwnConnection(tn_events[i])
    /\ \A c \in ConcurrentConns : InHandlerOrder(EventTypesOf(c))

\* C26 witness: both connections are past their login at the same time and
\* their events alternate in the log: the login of one lies between the
\* connection and a command of the other, and both have disconnected.
C26_Witness ==
    \E i, j, k, l \in 1..Len(tn_events) :
        /\ i < j /\ j < k /\ k < l
        /\ tn_events[i].by = "c1" /\ tn_events[i].event_type = "login_attempt"
        /\ tn_events[j].by = "c2" /\ tn_events[j].event_type = "login_attempt"
        /\ tn_events[k].by = "c1" /\ tn_events[k].event_type = "command_execution"
        /\ tn_events[l].by = "c2" /\ tn_events[l].event_type = "command_execution"
        /\ tn["c1"].pc = "closed" /\ tn["c2"].pc = "closed"

RECURSIVE IsSubSeq(_, _)
\* s can be obtained from t by leaving elements out
IsSubSeq(s, t) ==
    IF s = <<>> THEN TRUE
    ELSE IF t = <<>> THEN FALSE
    ELSE IF Head(s) = Head(t) THEN IsSubSeq(Tail(s), Tail(t))
    ELSE IsSubSeq(s, Tail(t))

\* the events the handler of c emitted, as its trace has them
EmitsOf(c) ==
    LET em == SelectSeq(tn[c].trace, LAMBDA x : x.op = "event")
    IN  [k \in 1..Len(em) |-> em[k].arg]

\* C27: every event handed to log_event is submitted exactly once, in the
\* order of the calls, whatever the outcome of the earlier submissions and of
\* the file writes (nothing is submitted again, nothing is kept for later);
\* the file holds a subsequence of the events; and the handler goes on as it
\* does when the sink works: its events are the ones its steps emit, in
\* handler order, and a closed connection has emitted its disconnect.
C27_SinkFailureDropsEvent ==
    /\ Len(sink.posts) = Len(tn_events)
    /\ \A i \in 1..Len(tn_events) : sink.posts[i].event = tn_events[i]
    /\ IsSubSeq(sink.file, tn_events)
    /\ \A c \in TelnetConns :
          /\ EmitsOf(c) = EventTypesOf(c)
          /\ InHandlerOrder(EventTypesOf(c))
          /\ tn[c].pc = "closed" =>
                EventTypesOf(c)[Len(EventTypesOf(c))] = "disconnect"
    /\ PromptAfterLogin

\* C27 witness: the submissions of the connection event and of the
\* login_attempt event failed, one by an exception and one by a status other
\* than 200, no line reached the file, and the handler still sent the shell
\* prompt, logged a command and the disconnect.
C27_Witness ==
    /\ tn["c1"].pc = "closed"
    /\ Len(sink.posts) = 4
    /\ sink.posts[1].outcome = "failed"
    /\ sink.posts[2].outcome = "rejected"
    /\ sink.posts[2].event.event_type = "login_attempt"
    /\ sink.posts[3].event.event_type = "command_execution"
    /\ sink.posts[4].event.event_type = "disconnect"
    /\ sink.file = <<>>
    /\ \E i \in 1..Len(tn["c1"].trace) : IsShellPrompt("c1", tn["c1"].trace[i])

MandatoryFields == {"timestamp", "service", "event_type", "honeypot_type", "version"}

\* the events of a decoy have the mandatory fields and name the decoy
WellFormedEvents(events, decoy) ==
    \A i \in 1..Len(events) :
        /\ MandatoryFields \subseteq DOMAIN events[i]
        /\ events[i].service = decoy

\* C28: every event a decoy hands to its sink has the fields timestamp,
\* service, event_type, honeypot_type and version, and its service is the
\* decoy's name (ftp, http, ssh, telnet), also when the caller's dictionary
\* had fields of these names.
C28_MandatoryFieldsAndService ==
    /\ WellFormedEvents(tn_events, "telnet")
    /\ WellFormedEvents(ssh_events, "ssh")
    /\ WellFormedEvents(ftp_events, "ftp")
    /\ WellFormedEvents(http_events, "http")

\* C28 witness: an FTP event whose caller had supplied a service field of its
\* own, next to an event of another decoy.
C28_Witness ==
    /\ \E i \in 1..Len(ftp_events) :
          /\ "note" \in DOMAIN ftp_events[i]
          /\ ftp_events[i].service = "ftp"
          /\ ftp_events[i].event_type = "file_upload"
    /\ Len(http_events) + Len(ssh_events) + Len(tn_events) > 0

\* C29: the listener of every decoy has at most 256 live handlers and at most
\* 5 per source address, and a socket accepted beyond a cap is refused.
C29_ConnectionCaps ==
    /\ Cardinality(Live(lsn)) <= MaxCons
    /\ \A ip \in ListenerIPs : Cardinality(LiveFrom(lsn, ip)) <= MaxConsPerIp

\* the sockets handed over so far
HandedOver(l) == 1..(Len(l.socks) - (IF l.pending = 0 THEN 0 ELSE 1))

\* C30: in the Telnet and SSH listeners every accepted socket gets a handler
\* thread of its own; the loop is ready to accept whatever the handlers are
\* doing, a hand-over is always followed by the loop being back at accept
\* without any handler having to end, and a failed accept leaves the loop
\* at accept.
C30_AcceptLoopNeverBlocked ==
    /\ [](lsn.decoy \in ThreadedDecoys =>
            /\ DOMAIN lsn.threads = HandedOver(lsn)
            /\ lsn.refused = {}
            /\ (lsn.pc = "accept" /\ Len(lsn.socks) < MaxAccepts) => ENABLED ListenerAccept)
    /\ [][(lsn.decoy \in ThreadedDecoys /\ lsn'.errors # lsn.errors) =>
            (lsn'.pc = "accept" /\ lsn'.threads = lsn.threads)]_vars
    /\ [][(lsn.decoy \in ThreadedDecoys /\ lsn.pc = "spawn" /\ lsn'.pc # "spawn") =>
            (lsn'.pc = "accept" /\ Live(lsn) \subseteq Live(lsn'))]_vars
    /\ ((lsn.decoy \in ThreadedDecoys /\ lsn.pc = "spawn") ~> (lsn.pc = "accept"))

\* C30 witness: the handler of the first socket is still running, an accept
\* has failed, and two later sockets have been accepted and have handlers of
\* their own, one of which has ended.
C30_Witness ==
    /\ lsn.decoy = "ssh"
    /\ lsn.pc = "accept"
    /\ lsn.errors = 1
    /\ DOMAIN lsn.threads = {1, 2, 3}
    /\ lsn.threads[1] = "running"
    /\ lsn.threads[2] = "done"
    /\ lsn.threads[3] = "running"

(***************************************************************************)
(* Shutdown of a decoy: claims                                             *)
(***************************************************************************)
\* C31: when the process has ended after the accept loop was interrupted, every
\* connection accepted has had its socket closed and its disconnect event
\* emitted by its handler (the finally clause of handle_client has run).
C31_ShutdownClosesConnections ==
    lsn.pc = "exited" =>
        /\ \A id \in DOMAIN lsn.threads : lsn.threads[id] = "done"
        /\ \A id \in 1..Len(lsn.socks) : id \in DOMAIN lsn.threads

(***************************************************************************)
(* Telnet decoy: errors, line ends, shell loop                             *)
(***************************************************************************)
\* the entries the handler of c appends to its trace in this step
NewTrace(c) == SubSeq(tn'[c].trace, Len(tn[c].trace) + 1, Len(tn'[c].trace))

\* the entries that record a socket call that raised or timed out
ErrorMarks == {Raise, Read("error"), Read("timeout")}

\* the place of the first such entry, 0 if there is none
ErrorAt(new) ==
    LET at == {i \in 1..Len(new) : new[i] \in ErrorMarks}
    IN  IF at = {} THEN 0 ELSE CHOOSE i \in at : \A j \in at : i <= j

\* a handler step of c in which a socket call raises: the connection was reset
\* before the step, or the step records the error
ErrorStep(c) ==
    /\ tn'[c].trace # tn[c].trace
    /\ \/ tn[c].peer = "reset"
       \/ \E i \in 1..Len(NewTrace(c)) : NewTrace(c)[i] \in ErrorMarks

SentTexts(tr) ==
    LET sends == SelectSeq(tr, LAMBDA x : x.op = "send")
    IN  [i \in 1..Len(sends) |-> sends[i].arg]

\* what the step does from the error on: no send, the close of the socket; the
\* peer has received what was sent before the error and nothing else
DropsConnection(c) ==
    LET new == NewTrace(c)
        at == ErrorAt(new)
        after == SubSeq(new, at + 1, Len(new))
    IN  /\ SentTexts(after) = <<>>
        /\ \E i \in 1..Len(after) : after[i] = Close
        /\ tn'[c].out = tn[c].out \o SentTexts(SubSeq(new, 1, at))
        /\ tn'[c].pc = "closed"

\* C32: when a step of a Telnet connection raises an error (a send or a recv
\* on a broken connection, a read timeout), the handler sends nothing from
\* then on, in particular nothing about the error, and closes the socket.
C32_ErrorDropsConnection ==
    [][\A c \in TelnetConns : ErrorStep(c) => DropsConnection(c)]_vars

\* C32 witness: a connection closed after the prompt following the reply to a
\* command could not be sent.
C32_Witness ==
    \E c \in TelnetConns :
        /\ tn[c].pc = "closed"
        /\ \E i \in 3..Len(tn[c].trace) :
            /\ tn[c].trace[i] = Raise
            /\ tn[c].trace[i - 1].op = "send"
            /\ tn[c].trace[i - 2] = Emit("command_execution")

Terminators == {CR, LF}

\* a get_input call of c returns in this step
ReadReturns(c) == Len(tn'[c].reads) = Len(tn[c].reads) + 1

\* the call takes its bytes from the front of the stream, in order, and stops
\* behind the first terminator: the bytes after it stay in the stream
OneTerminatorPerLine(c) ==
    LET r == tn'[c].reads[Len(tn'[c].reads)]
        ends == {i \in 1..Len(r.consumed) : r.consumed[i] \in Terminators}
    IN  /\ tn[c].inp = r.consumed \o tn'[c].inp
        /\ ends \subseteq {Len(r.consumed)}
        /\ ends # {} <=> r.outcome = "line"
        /\ (r.outcome # "error" /\ tn[c].inp # <<>> /\ Head(tn[c].inp) \in Terminators)
           => /\ r.consumed = <<Head(tn[c].inp)>>
              /\ r.ret = ""
              /\ r.echo = <<>>

\* a username ended with CR LF: the password read takes the LF alone, returns
\* the empty line, and the connection ends without a login attempt
CrLfUsernameEndsLogin ==
    \A c \in TelnetConns :
        (/\ Len(tn[c].reads) >= 2
         /\ tn[c].reads[1].consumed[Len(tn[c].reads[1].consumed)] = CR
         /\ Head(tn[c].reads[2].consumed \o <<0>>) = LF)
        => /\ tn[c].reads[2].consumed = <<LF>>
           /\ tn[c].reads[2].ret = ""
           /\ Len(tn[c].reads) = 2
           /\ tn[c].pc = "closed"
           /\ \A i \in 1..Len(tn_events) :
                tn_events[i].by = c => tn_events[i].event_type # "login_attempt"

\* C33: get_input consumes exactly one terminator byte per line: of the pair
\* CR LF the CR ends the current line and the LF stays in the stream, so the
\* next call returns the empty line after reading the LF and no further byte
\* (a username sent with CR LF makes the password read return empty).
C33_OneTerminatorPerLine ==
    /\ [][\A c \in TelnetConns : ReadReturns(c) => OneTerminatorPerLine(c)]_vars
    /\ [](CrLfUsernameEndsLogin)

\* C33 witness: the peer sent "a" CR LF and more; the username read took "a"
\* CR, the password read took the LF, and the rest is still in the stream.
C33_Witness ==
    \E c \in TelnetConns :
        /\ Len(tn[c].reads) = 2
        /\ tn[c].reads[1].consumed = <<97, CR>>
        /\ tn[c].reads[1].ret = "a"
        /\ tn[c].reads[2].consumed = <<LF>>
        /\ tn[c].reads[2].hide
        /\ tn[c].inp # <<>>

ExitCommands == {"exit", "quit", "logout"}

\* a get_input call of the shell loop of c returns a line in this step
ShellLineRead(c) ==
    /\ tn[c].pc = "shell"
    /\ ReadReturns(c)
    /\ tn'[c].reads[Len(tn'[c].reads)].ret \notin {None, ""}

\* what the loop does with the line: the event, the reply, the prompt, and the
\* loop is at its next get_input
TurnGoesOn(c, reply) ==
    LET r == tn'[c].reads[Len(tn'[c].reads)] IN
    /\ NewTrace(c) = TraceRead(r) \o
           <<Emit("command_execution"), Send(reply), Send(ShellPrompt(tn[c].user))>>
    /\ tn'[c].pc = "shell"

NewEvents == SubSeq(tn_events', Len(tn_events) + 1, Len(tn_events'))

\* the text of the line-edited bytes of a read, as get_input returns a buffer
BufferedLine(r) == Strip(Decode(EditBuffer(<<>>, r.consumed)))

\* a read that timed out returns nothing and its bytes are gone: the handler
\* logs the disconnect and nothing else
TimeoutDiscards(c, r) ==
    /\ r.ret = None
    /\ tn'[c].inp = <<>>
    /\ Len(NewEvents) = 1
    /\ NewEvents[1].event_type = "disconnect"

\* a read that met the end of the stream returns its buffer as a line; at the
\* password prompt the line is logged as a login attempt, in the shell loop as
\* a command
EofReturnsLine(c, r) ==
    /\ r.ret = BufferedLine(r)
    /\ (r.ret # "" /\ tn[c].pc = "password")
       => /\ NewEvents[1].event_type = "login_attempt"
          /\ NewEvents[1].password = r.ret
          /\ NewEvents[1].by = c
    /\ (r.ret # "" /\ tn[c].pc = "shell")
       => /\ NewEvents[1].event_type = "command_execution"
          /\ NewEvents[1].command = r.ret
          /\ NewEvents[1].by = c

\* C35: with a line partly entered, get_input on a read timeout discards the
\* buffered bytes and returns no line, and on end-of-stream (peer closed)
\* returns the buffered bytes as a complete line: a partial command followed
\* by the peer's close gives a command_execution event, a partial password a
\* login_attempt event.
C35_TimeoutDiscardsEofReturns ==
    [][\A c \in TelnetConns :
         ReadReturns(c) =>
            LET r == tn'[c].reads[Len(tn'[c].reads)] IN
            /\ r.outcome = "timeout" => TimeoutDiscards(c, r)
            /\ r.outcome = "eof" => EofReturnsLine(c, r)
      ]_vars

\* C35 witness: the peer typed "ab" at the shell prompt and closed; the
\* command_execution event for "ab" was emitted.
C35_Witness ==
    \E c \in TelnetConns :
        /\ Len(tn[c].reads) >= 3
        /\ tn[c].reads[3].outcome = "eof"
        /\ tn[c].reads[3].consumed = <<97, 98>>
        /\ \E i \in 1..Len(tn_events) :
            /\ tn_events[i].event_type = "command_execution"
            /\ tn_events[i].command = "ab"

\* the turn of the loop on a line that ends it: the line's event, its reply,
\* the prompt once more, and only then the end of the loop and of the handler
LongLineTurn(c) ==
    LET r == tn'[c].reads[Len(tn'[c].reads)] IN
    /\ NewTrace(c) = TraceRead(r) \o
           <<Emit("command_execution"), Send(simulate_command_response(r.ret)),
             Send(ShellPrompt(tn[c].user))>> \o
           <<Close, Emit("disconnect")>>
    /\ tn'[c].out = tn[c].out \o r.echo \o
           <<simulate_command_response(r.ret), ShellPrompt(tn[c].user)>>
    /\ Len(NewEvents) = 2
    /\ NewEvents[1].event_type = "command_execution"
    /\ NewEvents[1].command = r.ret
    /\ NewEvents[2].event_type = "disconnect"
    /\ tn'[c].pc = "closed"

BruteSends(ip, h) == SendsFor(<<"brute_force", ip, h>>)

\* a cycle of the brute-force check that began and ended in the hour bucket
\* of `now` has just ended
BruteCycleInHour ==
    /\ last_check.check = "brute_force"
    /\ HourBucket(last_check.at) = HourBucket(now)

\* every IP seen above the threshold has exactly one alert of its own in the
\* hour bucket
OneAlertPerIp ==
    BruteCycleInHour => \A ip \in last_check.dims : BruteSends(ip, HourBucket(now)) = 1

\* the cycle sends an alert for exactly the IPs above the threshold that had
\* none in the hour bucket, whatever is recorded for the other IPs
SendsForUnalertedIps ==
    (BruteCycleInHour' /\ HourBucket(now') = HourBucket(now))
    => \A ip \in AlertIPs :
          BruteSends(ip, HourBucket(now))' =
              BruteSends(ip, HourBucket(now)) +
              (IF ip \in last_check'.dims /\ BruteSends(ip, HourBucket(now)) = 0
               THEN 1 ELSE 0)

\* C37: the brute-force check deduplicates per source IP: within one check
\* cycle and one hour bucket each IP whose login_attempt count exceeds the
\* threshold gets exactly one alert of its own, and the key recorded for one
\* IP never suppresses the alert of another IP.
C37_BruteForceDedupPerIp ==
    /\ [](OneAlertPerIp)
    /\ [][SendsForUnalertedIps]_vars

\* C37 witness: a cycle saw two IPs above the threshold in an hour bucket in
\* which the key of the first was already recorded; the second got its alert
\* in this cycle.
C37_Witness ==
    LET h == HourBucket(now)
        k1 == <<"brute_force", "10.0.0.1", h>>
        k2 == <<"brute_force", "10.0.0.2", h>>
    IN  /\ BruteCycleInHour
        /\ last_check.dims = {"10.0.0.1", "10.0.0.2"}
        /\ k1 \in DOMAIN sent_alerts
        /\ k2 \in DOMAIN sent_alerts
        /\ sent_alerts[k1] < last_check.at
        /\ sent_alerts[k2] >= last_check.at
        /\ BruteSends("10.0.0.1", h) = 1
        /\ BruteSends("10.0.0.2", h) = 1

(***************************************************************************)
(* HTTP decoy: the level of a request, the events of a request             *)
(***************************************************************************)
\* low exactly when no rule matched; medium or high otherwise
LevelFitsTags(result) ==
    /\ result.threat_level = "low" <=> result.attack_types = <<>>
    /\ result.attack_types # <<>> => result.threat_level \in {"medium", "high"}
    /\ result.threat_level \in {"low", "medium", "high"}

\* C38: analyze_request returns threat_level low if and only if the returned
\* tag list is empty; whenever at least one rule matches the level is medium
\* or high, never low and never critical.  The same holds for the level and
\* the tags of every http_request event.
C38_LowIffNoTags ==
    /\ h_last.n > 0 => LevelFitsTags(h_last.result)
    /\ \A i \in 1..Len(http_events) :
        http_events[i].event_type = "http_request" => LevelFitsTags(http_events[i])

\* C38 witness: a call that matched a high rule and then medium rules only,
\* and returned medium.
C38_Witness ==
    /\ h_last.n > 0
    /\ Len(h_last.result.attack_types) >= 2
    /\ h_last.result.attack_types[1] = "sql_injection"
    /\ h_last.result.threat_level = "medium"

\* a request is served in this step
Served == http_stats'.total_requests = http_stats.total_requests + 1

\* the events the request hands to log_event, in order
NewHttpEvents == SubSeq(http_events', Len(http_events) + 1, Len(http_events'))

\* the request of an http_request event is a POST to one of the login routes
IsLoginPost(e) ==
    /\ e.method = "POST"
    /\ \E p \in LoginPaths : StartsWith(e.request_uri, p \o "?")

\* the first event is the http_request event with the classifier's tags and
\* level for its own method, URI and User-Agent; a login POST adds its
\* login_attempt event behind it and no other request adds anything
RequestEvents ==
    LET new == NewHttpEvents
        first == new[1]
        a == analyze_request([stats |-> http_stats'],
                 RequestData(first.method, first.request_uri, first.user_agent))
    IN  /\ Len(new) >= 1
        /\ first.event_type = "http_request"
        /\ first.attack_types = a.attack_types
        /\ first.threat_level = a.threat_level
        /\ IF IsLoginPost(first)
           THEN /\ Len(new) = 2
                /\ new[2].event_type = "login_attempt"
                /\ new[2].success = FALSE
           ELSE Len(new) = 1

\* C39: every request to the HTTP decoy, whatever its route and method, emits
\* exactly one http_request event tagged with the classifier's result, before
\* the route handler runs; a POST to /login, /admin or /wp-admin additionally
\* emits its login_attempt event after that http_request event.
C39_OneRequestEventThenLogin ==
    [][Served => RequestEvents]_vars

\* C39 witness: a POST that no route accepts and a POST to /wp-admin have been
\* served: three events, the login_attempt last.
C39_Witness ==
    /\ Len(http_events) = 3
    /\ http_events[1].event_type = "http_request"
    /\ http_events[1].method = "POST"
    /\ http_events[1].request_uri = "/nope?q=<script>"
    /\ http_events[2].event_type = "http_request"
    /\ http_events[2].request_uri = "/wp-admin?"
    /\ http_events[3].event_type = "login_attempt"
    /\ http_events[3].password = "x"

(***************************************************************************)
(* Specifications                                                          *)
(***************************************************************************)
Init == InitAlert /\ InitTelnet /\ InitSSH /\ InitFTP /\ InitHTTP /\ InitAuth /\ InitShell /\ InitNotify /\ InitSched /\ InitRace /\ InitSink /\ InitListen

SpecAlert == Init /\ [][NextAlert]_vars

SpecTelnet == Init /\ [][NextTelnet]_vars

SpecSSH == Init /\ [][NextSSH]_vars

\* the handler thread of c takes a step: by NextTelnet this is one of
\* TelnetReadUsername, TelnetReadPassword, TelnetShellStart, TelnetShellStep,
\* and one of them is enabled whenever the thread is between accept and close
TelnetHandlerStep(c) ==
    /\ tn[c].pc \in {"username", "password", "postauth", "shell"}
    /\ tn_steps' = [tn_steps EXCEPT ![c] = @ + 1]

\* a started handler thread keeps running: recv returns within the 30 s of
\* settimeout(30), time.sleep(2) returns
SpecTelnetLive == SpecTelnet /\ \A c \in TelnetConns : WF_tn_steps(TelnetHandlerStep(c))

\* handle_login_attempt on its own
SpecLogin == Init /\ [][NextLogin]_vars

SpecLoginRace == Init /\ [][NextRace]_vars

SpecTelnetSink == Init /\ [][NextTelnetSink]_vars

\* the Telnet decoy over a connection that can break in the middle of a step
SpecTelnetFaults == Init /\ [][NextTelnetFaults]_vars

SpecLogEvent == Init /\ [][NextLogEvent]_vars

\* one listener, of any decoy
InitListeners ==
    InitAlert /\ InitTelnet /\ InitSSH /\ InitFTP /\ InitHTTP /\ InitAuth /\ InitShell /\ InitNotify /\ InitSched /\ InitRace /\ InitSink /\ InitListenProbe

SpecListen == InitListeners /\ [][NextListen]_vars

\* the thread of the accept loop is scheduled: its hand-over step is taken
SpecListenLive == SpecListen /\ WF_vars(ListenerHandOver)

\* one listener, which may be interrupted
SpecShutdown == InitListeners /\ [][NextShutdown]_vars

\* the Telnet decoy with two connections at once
InitConcurrent ==
    InitAlert /\ InitTelnetConcurrent /\ InitSSH /\ InitFTP /\ InitHTTP /\ InitAuth /\ InitShell /\ InitNotify /\ InitSched /\ InitRace /\ InitSink /\ InitListen

SpecTelnetConcurrent == InitConcurrent /\ [][NextTelnetConcurrent]_vars

\* the authentication operations of the SSH, FTP and HTTP decoys
NextAuth == NextSSH \/ NextFTP \/ NextHTTPLogin

SpecAuth == Init /\ [][NextAuth]_vars

\* the classifier, tried on every request of Requests
InitProbe ==
    InitAlert /\ InitTelnet /\ InitSSH /\ InitFTP /\ InitHTTPProbe /\ InitAuth /\ InitShell /\ InitNotify /\ InitSched /\ InitRace /\ InitSink /\ InitListen

SpecHTTP == InitProbe /\ [][NextHTTP]_vars

\* requests on every kind of route
SpecHTTPRoutes == Init /\ [][NextHTTPRoutes]_vars

\* send_alert with its channels, under every configuration
InitChannels ==
    InitAlert /\ InitTelnet /\ InitSSH /\ InitFTP /\ InitHTTP /\ InitAuth /\ InitShell /\ InitNotifyProbe /\ InitSched /\ InitRace /\ InitSink /\ InitListen

SpecNotify == InitChannels /\ [][NextNotify]_vars

SpecSched == Init /\ [][NextSched]_vars

\* simulate_command_response, tried on every command of ShellCommands
InitReplies ==
    InitAlert /\ InitTelnet /\ InitSSH /\ InitFTP /\ InitHTTP /\ InitAuth /\ InitShellProbe /\ InitNotify /\ InitSched /\ InitRace /\ InitSink /\ InitListen

SpecShell == InitReplies /\ [][NextShell]_vars

====
